---- MODULE Spec2Model ----
(***************************************************************************)
(* MDReader (mvgrieken/mdreader-app): state machines of the feature        *)
(* components and route handlers.  Every component owns one record-valued  *)
(* variable whose fields carry the names of the component's React state;   *)
(* the components share no state, so each has its own specification that   *)
(* leaves the other components' variables unchanged.                       *)
(*                                                                         *)
(* Strings whose characters matter (trim, split, endsWith, toLowerCase)    *)
(* are sequences of one-character strings.  An `await` is an interleaving  *)
(* point: the code up to the next await is one action.                     *)
(***************************************************************************)
EXTENDS Integers, Sequences, FiniteSets, TLC

VARIABLES categorizer, editor, upload, filterRun, search, docList, mounted,
          feedback, boundary, toasts, perf, button, analytics, modal,
          monitoring, theme, navList, dashboard, readingTimes

vars == <<categorizer, editor, upload, filterRun, search, docList, mounted,
          feedback, boundary, toasts, perf, button, analytics, modal,
          monitoring, theme, navList, dashboard, readingTimes>>

\* the document components and the two route handlers above them
documentVars ==
  <<categorizer, editor, upload, filterRun, search, docList, mounted,
    feedback, boundary>>

\* the UI library, the monitoring library and the analytics route
libraryVars ==
  <<toasts, perf, button, analytics, modal, monitoring, theme, navList>>

\* the dashboard page, and the reading times computed across the modules
pageVars == <<dashboard, readingTimes>>

(***************************************************************************)
(* Strings                                                                 *)
(***************************************************************************)
IsSpace(c) == c \in {" ", "\n"}

RECURSIVE TrimStart(_)
TrimStart(s) ==
  IF s = <<>> THEN <<>>
  ELSE IF IsSpace(Head(s)) THEN TrimStart(Tail(s)) ELSE s

RECURSIVE TrimEnd(_)
TrimEnd(s) ==
  IF s = <<>> THEN <<>>
  ELSE IF IsSpace(s[Len(s)]) THEN TrimEnd(SubSeq(s, 1, Len(s) - 1)) ELSE s

\* String.prototype.trim
Trim(s) == TrimEnd(TrimStart(s))

\* number of maximal runs of whitespace in s: the separators /\s+/ matches
WhitespaceRuns(s) ==
  Cardinality({i \in 1..Len(s) :
                 IsSpace(s[i]) /\ (i = 1 \/ ~IsSpace(s[i - 1]))})

\* content.split(/\s+/).length: one more piece than separators, the empty
\* pieces before a leading and after a trailing separator included
SplitLength(s) == WhitespaceRuns(s) + 1

\* content.split(/\s+/).filter(word => word.length > 0).length
WordCount(s) ==
  Cardinality({i \in 1..Len(s) :
                 ~IsSpace(s[i]) /\ (i = 1 \/ IsSpace(s[i - 1]))})

WordsPerMinute == 200

\* Math.ceil(n / d) for n >= 0, d > 0
Ceil(n, d) == (n + d - 1) \div d

(***************************************************************************)
(* AI categorizer: analyzeDocument and AICategorization.handleAnalyze      *)
(***************************************************************************)
MaxAnalyses == 2

Contents == {<<>>, <<" ">>, <<"w">>, <<"w", " ", "w">>, <<" ", "w", " ">>}

\* what the completion endpoint may answer with once the HTTP status is OK
ResponseBodies ==
  {"invalid_json", "no_choices", "content_not_json", "content_null",
   "content_number", "content_object", "content_object_no_sentiment"}

NoValue == [kind |-> "none"]

fallbackAnalysis(content) ==
  LET wordCount == WordCount(content) IN
  [kind |-> "fallback",
   confidence |-> 60,
   sentiment |-> "neutral",
   complexity |-> IF wordCount > 500 THEN "complex"
                  ELSE IF wordCount > 200 THEN "moderate" ELSE "simple",
   estimatedReadingTime |-> Ceil(wordCount, WordsPerMinute)]

\* the object built from the parsed completion (lines 100-115)
aiAnalysis(content, body) ==
  [kind |-> "ai",
   confidence |-> 85,
   sentiment |-> IF body = "content_object" THEN "positive" ELSE "neutral",
   complexity |-> "moderate",
   estimatedReadingTime |-> Ceil(SplitLength(content), WordsPerMinute)]

\* the catch block of analyzeDocument: whatever was thrown, the promise
\* resolves with the fallback
CatchRethrows(a, why) ==
  [a EXCEPT !.pc = "settled", !.promise = "rejected", !.failure = why]

Catch(a, why) ==
  [a EXCEPT !.pc = "settled", !.promise = "resolved", !.failure = why,
            !.value = fallbackAnalysis(a.arg)]

\* fetch(...) of line 68
SendRequest(a) ==
  [a EXCEPT !.pc = "fetching",
            !.httpRequests = @ + 1,
            !.requestsThisCall = @ + 1]

\* a rejected fetch, or a response that is not OK, throws into the catch block
FetchFailedRetries(a, why) ==
  IF a.requestsThisCall < 2 THEN SendRequest(a) ELSE Catch(a, why)

FetchFailed(a, why) == Catch(a, why)

\* the body of analyzeDocument up to its first await
analyzeDocumentStart(a) ==
  IF ~a.apiKey THEN Catch(a, "no_api_key") ELSE SendRequest(a)

\* data.choices[0].message.content through JSON.parse, then the return
\* statement; a TypeError or SyntaxError on the way is caught
ParseCompletion(a, body) ==
  CASE body = "invalid_json" -> Catch(a, "response_not_json")
    [] body = "no_choices" -> Catch(a, "no_choices")
    [] body = "content_not_json" -> Catch(a, "content_not_json")
    [] body = "content_null" ->
         Catch([a EXCEPT !.parsedJson = TRUE], "content_null")
    [] OTHER ->
         [a EXCEPT !.pc = "settled", !.promise = "resolved",
                   !.parsedJson = TRUE,
                   !.value = aiAnalysis(a.arg, body)]

CategorizerInit ==
  \E key \in BOOLEAN, c \in Contents :
    categorizer =
      [pc |-> "idle", content |-> c, apiKey |-> key, arg |-> <<>>,
       isAnalyzing |-> FALSE, result |-> NoValue, error |-> "",
       promise |-> "none", value |-> NoValue, failure |-> "none",
       httpOk |-> FALSE, parsedJson |-> FALSE,
       calls |-> 0, httpRequests |-> 0, requestsThisCall |-> 0]

OthersOfCategorizer ==
  <<editor, upload, filterRun, search, docList, mounted, feedback, boundary,
    libraryVars, pageVars>>

\* the parent re-renders AICategorization with another content prop
ContentPropChanges ==
  /\ \E c \in Contents :
       /\ c # categorizer.content
       /\ categorizer' = [categorizer EXCEPT !.content = c]
  /\ UNCHANGED OthersOfCategorizer

\* a click on "Analyze Content"; the button is disabled while analyzing and
\* for blank content
handleAnalyze ==
  /\ categorizer.pc = "idle"
  /\ ~(categorizer.isAnalyzing \/ Trim(categorizer.content) = <<>>)
  /\ categorizer.calls < MaxAnalyses
  /\ categorizer' =
       IF Trim(categorizer.content) = <<>>
       THEN [categorizer EXCEPT
               !.error = "Please provide some content to analyze"]
       ELSE analyzeDocumentStart(
              [categorizer EXCEPT
                 !.isAnalyzing = TRUE, !.error = "",
                 !.arg = categorizer.content,
                 !.calls = @ + 1, !.requestsThisCall = 0,
                 !.promise = "pending", !.value = NoValue,
                 !.failure = "none", !.httpOk = FALSE,
                 !.parsedJson = FALSE])
  /\ UNCHANGED OthersOfCategorizer

\* the fetch promise settles: it rejects, or resolves with a status
FetchSettles ==
  /\ categorizer.pc = "fetching"
  /\ \E outcome \in {"throws", "not_ok", "ok"} :
       categorizer' =
         IF outcome = "ok"
         THEN [categorizer EXCEPT !.pc = "json", !.httpOk = TRUE]
         ELSE FetchFailed(categorizer, outcome)
  /\ UNCHANGED OthersOfCategorizer

\* response.json() settles and the rest of the try block runs
JsonSettles ==
  /\ categorizer.pc = "json"
  /\ \E body \in ResponseBodies :
       categorizer' = ParseCompletion(categorizer, body)
  /\ UNCHANGED OthersOfCategorizer

\* handleAnalyze resumes after `await analyzeDocument(content)`
AnalyzeResumes ==
  /\ categorizer.pc = "settled"
  /\ categorizer' =
       [categorizer EXCEPT
          !.pc = "idle",
          !.result = IF categorizer.promise = "resolved"
                     THEN categorizer.value ELSE @,
          !.error = IF categorizer.promise = "resolved"
                    THEN @ ELSE "Analysis failed",
          !.isAnalyzing = FALSE]
  /\ UNCHANGED OthersOfCategorizer

NextAI ==
  \/ ContentPropChanges
  \/ handleAnalyze
  \/ FetchSettles
  \/ JsonSettles
  \/ AnalyzeResumes

(***************************************************************************)
(* DocumentEditor (the version with file upload and AI analysis)           *)
(***************************************************************************)
MaxSaves == 2

Titles == {<<>>, <<" ">>, <<"a">>, <<"f">>}
Statuses == {"draft", "published", "archived"}
CategoryIds == {"", "cat1"}

\* parseMarkdown(fileContent) of the files that may be uploaded: front matter
\* with every key, a bare body, and an empty file
ParsedFiles ==
  {[title |-> <<"f">>, description |-> "d", tags |-> <<"t1">>,
    category |-> "cat1", content |-> "c"],
   [title |-> <<"f">>, description |-> "d", tags |-> <<>>,
    category |-> "", content |-> ""],
   [title |-> <<>>, description |-> "", tags |-> <<>>,
    category |-> "other", content |-> "c"],
   [title |-> <<>>, description |-> "", tags |-> <<>>,
    category |-> "", content |-> ""]}

\* generateSummary(content) of a non-empty content
generateSummary(content) == IF content = "" THEN "" ELSE "g"

\* categories.find(cat => cat.name.toLowerCase() === name.toLowerCase());
\* the one category of the model is cat1
FindCategory(name) == IF name = "cat1" THEN "cat1" ELSE ""

\* [...new Set([...tags, ...more])]
RECURSIVE Union(_, _)
Union(tags, more) ==
  IF more = <<>> THEN tags
  ELSE Union(IF \E i \in 1..Len(tags) : tags[i] = Head(more)
             THEN tags ELSE Append(tags, Head(more)),
             Tail(more))

Includes(tags, tag) == \E i \in 1..Len(tags) : tags[i] = tag

RECURSIVE Without(_, _)
Without(tags, tag) ==
  IF tags = <<>> THEN <<>>
  ELSE IF Head(tags) = tag THEN Without(Tail(tags), tag)
       ELSE <<Head(tags)>> \o Without(Tail(tags), tag)

NoClosure == [mounted |-> FALSE]

\* the values handleFileUpload reads, as of the render that created it
ClosureOf(e) ==
  [mounted |-> TRUE, titleEmpty |-> (e.title = <<>>),
   summaryEmpty |-> (e.summary = ""), tags |-> e.tags,
   categoryIdEmpty |-> (e.categoryId = "")]

\* the state once getCategories() of the mount effect has resolved with the
\* one category cat1
EditorInit ==
  \E doc \in {"none", "d1"} :
    editor =
      [document |-> doc,
       title |-> IF doc = "none" THEN <<>> ELSE <<"a">>,
       content |-> IF doc = "none" THEN "" ELSE "c",
       summary |-> "",
       categoryId |-> "",
       status |-> "draft",
       tags |-> <<>>,
       loading |-> FALSE,
       isPreview |-> FALSE,
       showFileUpload |-> FALSE,
       uploadClosure |-> NoClosure,
       pendingWrite |-> FALSE,
       writes |-> <<>>,
       onSaveCalls |-> 0]

OthersOfEditor ==
  <<categorizer, upload, filterRun, search, docList, mounted, feedback,
    boundary,
    libraryVars, pageVars>>

\* the form is rendered only outside preview
setTitle ==
  /\ ~editor.isPreview
  /\ \E t \in Titles \ {<<"f">>} :
       /\ t # editor.title
       /\ editor' = [editor EXCEPT !.title = t]
  /\ UNCHANGED OthersOfEditor

setContent ==
  /\ ~editor.isPreview
  /\ \E c \in {"", "c"} :
       /\ c # editor.content
       /\ editor' = [editor EXCEPT !.content = c]
  /\ UNCHANGED OthersOfEditor

setSummary ==
  /\ ~editor.isPreview
  /\ \E s \in {"", "s"} :
       /\ s # editor.summary
       /\ editor' = [editor EXCEPT !.summary = s]
  /\ UNCHANGED OthersOfEditor

setCategoryId ==
  /\ ~editor.isPreview
  /\ \E c \in CategoryIds :
       /\ c # editor.categoryId
       /\ editor' = [editor EXCEPT !.categoryId = c]
  /\ UNCHANGED OthersOfEditor

setStatus ==
  /\ ~editor.isPreview
  /\ \E s \in Statuses :
       /\ s # editor.status
       /\ editor' = [editor EXCEPT !.status = s]
  /\ UNCHANGED OthersOfEditor

\* the "+" button is disabled for a blank or known tag; the typed tag is t1
handleAddTag ==
  /\ ~editor.isPreview
  /\ ~Includes(editor.tags, "t1")
  /\ editor' = [editor EXCEPT !.tags = Append(@, "t1")]
  /\ UNCHANGED OthersOfEditor

handleRemoveTag ==
  /\ ~editor.isPreview
  /\ \E i \in 1..Len(editor.tags) :
       editor' = [editor EXCEPT !.tags = Without(@, editor.tags[i])]
  /\ UNCHANGED OthersOfEditor

togglePreview ==
  /\ editor' = [editor EXCEPT !.isPreview = ~@]
  /\ UNCHANGED OthersOfEditor

\* "Upload File": mounting FileUpload makes it keep the handleFileUpload of
\* this render (its drop and select handlers are memoised with no
\* dependencies)
toggleFileUpload ==
  /\ editor' =
       [editor EXCEPT
          !.showFileUpload = ~@,
          !.uploadClosure = IF editor.showFileUpload THEN @
                            ELSE ClosureOf(editor)]
  /\ UNCHANGED OthersOfEditor

\* handleFileUpload as FileUpload calls it: every read of title, summary,
\* tags and categoryId is a read of the closure
FileUploaded(e, parsed) ==
  LET k == e.uploadClosure
      t1 == IF parsed.title # <<>> /\ k.titleEmpty THEN parsed.title
            ELSE e.title
      s1 == IF parsed.description # "" /\ k.summaryEmpty
            THEN parsed.description ELSE e.summary
      g1 == IF Len(parsed.tags) > 0 THEN Union(k.tags, parsed.tags)
            ELSE e.tags
      found == FindCategory(parsed.category)
      c1 == IF parsed.category # "" /\ k.categoryIdEmpty /\ found # ""
            THEN found ELSE e.categoryId
      s2 == IF k.summaryEmpty /\ parsed.content # ""
            THEN generateSummary(parsed.content) ELSE s1
  IN [e EXCEPT !.title = t1, !.summary = s2, !.tags = g1,
               !.categoryId = c1, !.content = parsed.content,
               !.showFileUpload = FALSE]

handleFileUpload ==
  /\ editor.uploadClosure.mounted
  /\ \E parsed \in ParsedFiles : editor' = FileUploaded(editor, parsed)
  /\ UNCHANGED OthersOfEditor

\* the three "apply" callbacks of AICategorization
handleAICategorySelect ==
  /\ \E name \in {"cat1", "other"} :
       LET found == FindCategory(name) IN
       editor' = IF found # "" THEN [editor EXCEPT !.categoryId = found]
                 ELSE editor
  /\ UNCHANGED OthersOfEditor

handleAITagsSelect ==
  /\ \E aiTags \in {<<>>, <<"t1">>} :
       editor' = [editor EXCEPT !.tags = Union(@, aiTags)]
  /\ UNCHANGED OthersOfEditor

handleAISummarySelect ==
  /\ editor' = [editor EXCEPT !.summary = "g"]
  /\ UNCHANGED OthersOfEditor

\* createDocument / updateDocument: the one backend write of handleSave
WriteTwice(e) ==
  LET call == IF e.document # "none"
              THEN [op |-> "updateDocument", id |-> e.document]
              ELSE [op |-> "createDocument", id |-> "none"]
  IN [e EXCEPT !.loading = TRUE, !.pendingWrite = TRUE,
               !.writes = Append(Append(@, call), call)]

WriteDocument(e) ==
  [e EXCEPT !.loading = TRUE, !.pendingWrite = TRUE,
            !.writes = Append(@, IF e.document # "none"
                                 THEN [op |-> "updateDocument",
                                       id |-> e.document]
                                 ELSE [op |-> "createDocument",
                                       id |-> "none"])]

\* handleSave up to its await; Save is disabled while loading
SaveClicked(e) ==
  IF Trim(e.title) = <<>> THEN e ELSE WriteDocument(e)

handleSave ==
  /\ ~editor.loading
  /\ Len(editor.writes) < MaxSaves
  /\ editor' = SaveClicked(editor)
  /\ UNCHANGED OthersOfEditor

\* the write resolves: onSave, then finally
SaveResolves ==
  /\ editor.pendingWrite
  /\ editor' = [editor EXCEPT !.pendingWrite = FALSE, !.loading = FALSE,
                              !.onSaveCalls = @ + 1]
  /\ UNCHANGED OthersOfEditor

\* the write rejects: catch (log, alert), then finally
SaveRejectedRetries(e) == WriteDocument(e)

SaveRejected(e) == [e EXCEPT !.pendingWrite = FALSE, !.loading = FALSE]

SaveRejects ==
  /\ editor.pendingWrite
  /\ editor' = SaveRejected(editor)
  /\ UNCHANGED OthersOfEditor

NextEditor ==
  \/ setTitle
  \/ setContent
  \/ setSummary
  \/ setCategoryId
  \/ setStatus
  \/ handleAddTag
  \/ handleRemoveTag
  \/ togglePreview
  \/ toggleFileUpload
  \/ handleFileUpload
  \/ handleAICategorySelect
  \/ handleAITagsSelect
  \/ handleAISummarySelect
  \/ handleSave
  \/ SaveResolves
  \/ SaveRejects

(***************************************************************************)
(* FileUpload                                                              *)
(***************************************************************************)
MaxFiles == 2

maxFileSize == 10485760

\* a MIME type is a one-element sequence; an extension is its characters
acceptedTypes ==
  <<(<<"text/markdown">>), (<<"text/plain">>), (<<".", "m", "d">>),
    (<<".", "t", "x", "t">>)>>

UpperMd == [name |-> <<"a", ".", "M", "D">>, type |-> <<>>, size |-> 100]
PlainText ==
  [name |-> <<"n">>, type |-> <<"text/plain">>, size |-> maxFileSize]
Picture ==
  [name |-> <<"p", ".", "p", "n", "g">>, type |-> <<"image/png">>,
   size |-> 100]
TooLarge ==
  [name |-> <<"b", ".", "m", "d">>, type |-> <<"text/markdown">>,
   size |-> maxFileSize + 1]

Files == {UpperMd, PlainText, Picture, TooLarge}

\* the batches of at most n files
FileBatches(n) ==
  UNION {[1..k -> Files] : k \in 1..n}

\* a batch holds at least one file, so there are at most MaxFiles batches
Batches == 1..MaxFiles

Lower(c) == CASE c = "M" -> "m" [] c = "D" -> "d" [] OTHER -> c

toLowerCase(s) == [i \in 1..Len(s) |-> Lower(s[i])]

endsWith(s, suffix) ==
  /\ Len(suffix) <= Len(s)
  /\ SubSeq(s, Len(s) - Len(suffix) + 1, Len(s)) = suffix

startsWithDot(t) == t # <<>> /\ t[1] = "."

\* acceptedTypes.some(...) of lines 66-71
isValidTypeCaseSensitive(file) ==
  \E k \in 1..Len(acceptedTypes) :
    IF startsWithDot(acceptedTypes[k])
    THEN endsWith(file.name, acceptedTypes[k])
    ELSE file.type = acceptedTypes[k]

isValidType(file) ==
  \E k \in 1..Len(acceptedTypes) :
    IF startsWithDot(acceptedTypes[k])
    THEN endsWith(toLowerCase(file.name), toLowerCase(acceptedTypes[k]))
    ELSE file.type = acceptedTypes[k]

NoError == [kind |-> "none"]

IdleBatch == [pc |-> "idle", files |-> <<>>, idx |-> 1, i |-> 0]

\* setError with a message; errorsSet keeps, per batch, every message that
\* was set, each
\* naming its file by batch and position
setError(u, message) ==
  [u EXCEPT !.error = message,
            !.errorsSet[message.at[1]] = Append(@, message)]

\* the finally block of one file, then on to the next file
FileDone(u, b) ==
  [u EXCEPT !.isUploading = FALSE, !.uploadProgress = 0,
            !.batches[b].idx = @ + 1]

\* the for loop of handleFiles from the batch's current file up to the next
\* await (the read of an accepted file) or to the end of the batch
RECURSIVE Advance(_, _)
Advance(u, b) ==
  LET me == u.batches[b] IN
  IF me.idx > Len(me.files)
  THEN [u EXCEPT !.batches[b].pc = "done"]
  ELSE
    LET file == me.files[me.idx] IN
    IF file.size > maxFileSize
    THEN Advance(setError([u EXCEPT !.batches[b].idx = @ + 1],
                          [kind |-> "too_large", at |-> <<b, me.idx>>]), b)
    ELSE IF ~isValidType(file)
    THEN Advance(setError([u EXCEPT !.batches[b].idx = @ + 1],
                          [kind |-> "bad_type", at |-> <<b, me.idx>>]), b)
    ELSE [u EXCEPT !.isUploading = TRUE, !.uploadProgress = 0,
                   !.reads[b] = Append(@, <<b, me.idx>>),
                   !.batches[b].pc = "reading"]

UploadInit ==
  upload =
    [isUploading |-> FALSE, uploadProgress |-> 0, uploadedFiles |-> <<>>,
     error |-> NoError,
     batches |-> [b \in Batches |-> IdleBatch],
     errorsSet |-> [b \in Batches |-> <<>>],
     reads |-> [b \in Batches |-> <<>>], calls |-> <<>>]

OthersOfUpload ==
  <<categorizer, editor, filterRun, search, docList, mounted, feedback,
    boundary,
    libraryVars, pageVars>>

\* the files of the batches dropped so far
RECURSIVE FilesDropped(_, _)
FilesDropped(u, b) ==
  IF b = 0 THEN 0 ELSE Len(u.batches[b].files) + FilesDropped(u, b - 1)

\* handleDrop / handleFileSelect: handleFiles(files) up to its first await.
\* Batches are numbered in the order in which they are dropped.
handleFiles ==
  /\ \E b \in Batches,
        files \in FileBatches(MaxFiles - FilesDropped(upload, MaxFiles)) :
       /\ upload.batches[b].pc = "idle"
       /\ \A a \in 1..(b - 1) : upload.batches[a].pc # "idle"
       /\ upload' =
            Advance([upload EXCEPT !.error = NoError,
                                   !.batches[b].files = files], b)
  /\ UNCHANGED OthersOfUpload

\* readFileContent resolves (reader.onload): the progress loop starts
ReadResolves ==
  /\ \E b \in Batches :
       /\ upload.batches[b].pc = "reading"
       /\ upload' = [upload EXCEPT !.uploadProgress = 0,
                                   !.batches[b].pc = "progress",
                                   !.batches[b].i = 0]
  /\ UNCHANGED OthersOfUpload

\* readFileContent rejects (reader.onerror): catch, finally, next file
ReadRejected(u, b) ==
  Advance(FileDone(setError(u, [kind |-> "read_failed",
                                at |-> <<b, u.batches[b].idx>>]), b), b)

ReadRejects ==
  /\ \E b \in Batches :
       /\ upload.batches[b].pc = "reading"
       /\ upload' = ReadRejected(upload, b)
  /\ UNCHANGED OthersOfUpload

\* the statements after the progress loop: append, onFileUpload, finally
FileUploadedTwice(u, b) ==
  LET me == u.batches[b] IN
  Advance(FileDone([u EXCEPT
                      !.uploadedFiles = Append(@, me.files[me.idx]),
                      !.calls = Append(Append(@, <<b, me.idx>>),
                                       <<b, me.idx>>)], b), b)

FileUploadComplete(u, b) ==
  LET me == u.batches[b] IN
  Advance(FileDone([u EXCEPT
                      !.uploadedFiles = Append(@, me.files[me.idx]),
                      !.calls = Append(@, <<b, me.idx>>)], b), b)

\* the 50 ms timer of the progress loop fires: i += 10, and either the next
\* iteration up to its await or the rest of the try block
ProgressTimerFires ==
  /\ \E b \in Batches :
       /\ upload.batches[b].pc = "progress"
       /\ upload' =
            IF upload.batches[b].i + 10 <= 100
            THEN [upload EXCEPT
                    !.uploadProgress = upload.batches[b].i + 10,
                    !.batches[b].i = @ + 10]
            ELSE FileUploadComplete(upload, b)
  /\ UNCHANGED OthersOfUpload

NextUpload ==
  \/ handleFiles
  \/ ReadResolves
  \/ ReadRejects
  \/ ProgressTimerFires

(***************************************************************************)
(* AdvancedSearch: the client-side filters of handleSearch                 *)
(***************************************************************************)
MaxDocs == 2
TicksPerDay == 2
wordCountMaxDefault == 10000

\* a nullable column is <<>> (null) or <<value>>
Null == <<>>
Some(x) == <<x>>

\* new Date("YYYY-MM-DD"): midnight UTC of that day.  Instants are counted
\* in ticks, TicksPerDay to the day; created_at is an instant.
DateOf(day) == day * TicksPerDay

Documents ==
  {[id |-> "d1", tags |-> Some(<<"t1">>),
    created_at |-> Some(DateOf(2) + 1), word_count |-> Some(5)],
   [id |-> "d2", tags |-> Null,
    created_at |-> Some(DateOf(2)), word_count |-> Null],
   [id |-> "d3", tags |-> Some(<<"t2", "t3">>),
    created_at |-> Some(DateOf(3)), word_count |-> Some(20000)],
   [id |-> "d4", tags |-> Some(<<>>),
    created_at |-> Null, word_count |-> Some(0)],
   [id |-> "d5", tags |-> Some(<<"t3", "t1">>),
    created_at |-> Some(DateOf(2) - 1), word_count |-> Some(6)]}

\* lists without repetition of at most MaxDocs of the given rows
ListsOf(rows) ==
  {l \in UNION {[1..n -> rows] : n \in 0..MaxDocs} :
     \A i, j \in 1..Len(l) : i # j => l[i] # l[j]}

DefaultFilters ==
  [tags |-> <<>>, dateFrom |-> <<>>, dateTo |-> <<>>,
   wordCountMin |-> 0, wordCountMax |-> wordCountMaxDefault]

AllFilters ==
  [tags : {<<>>, <<"t1">>, <<"t1", "t2">>},
   dateFrom : {<<>>, <<2>>},
   dateTo : {<<>>, <<2>>},
   wordCountMin : {0, 5, 6},
   wordCountMax : {wordCountMaxDefault, 5, 4, 20000}]

\* doc.word_count || 0
WordCountOrZero(doc) ==
  IF doc.word_count = Null THEN 0 ELSE doc.word_count[1]

\* lines 97-127 of handleSearch
FilterDocuments(documents, filters) ==
  LET byTags(doc) ==
        doc.tags # Null
        /\ \E i \in 1..Len(filters.tags) :
             Includes(doc.tags[1], filters.tags[i])
      byFrom(doc) == doc.created_at # Null
                     /\ doc.created_at[1] >= DateOf(filters.dateFrom[1])
      byTo(doc) == doc.created_at # Null
                   /\ doc.created_at[1] <= DateOf(filters.dateTo[1])
      byMin(doc) == WordCountOrZero(doc) >= filters.wordCountMin
      byMax(doc) == WordCountOrZero(doc) <= filters.wordCountMax
      f1 == IF Len(filters.tags) > 0 THEN SelectSeq(documents, byTags)
            ELSE documents
      f2 == IF filters.dateFrom # <<>> THEN SelectSeq(f1, byFrom) ELSE f1
      f3 == IF filters.dateTo # <<>> THEN SelectSeq(f2, byTo) ELSE f2
      f4 == IF filters.wordCountMin > 0 THEN SelectSeq(f3, byMin) ELSE f3
  IN IF filters.wordCountMax < wordCountMaxDefault
     THEN SelectSeq(f4, byMax) ELSE f4

FilterRunInit ==
  filterRun = [ran |-> FALSE, filters |-> DefaultFilters,
               documents |-> <<>>, results |-> <<>>, onResults |-> <<>>]

OthersOfFilterRun ==
  <<categorizer, editor, upload, search, docList, mounted, feedback,
    boundary,
    libraryVars, pageVars>>

\* one search from the request's answer to setResults and onResults
ApplyFilters ==
  /\ ~filterRun.ran
  /\ \E filters \in AllFilters, documents \in ListsOf(Documents) :
       filterRun' =
         [ran |-> TRUE, filters |-> filters, documents |-> documents,
          results |-> FilterDocuments(documents, filters),
          onResults |-> FilterDocuments(documents, filters)]
  /\ UNCHANGED OthersOfFilterRun

NextFilter == ApplyFilters

(***************************************************************************)
(* Fetches of AdvancedSearch.handleSearch and DocumentList.loadDocuments   *)
(***************************************************************************)
MaxSearches == 3
MaxDeletes == 2

\* the filter settings the user moves between while searching
SearchFilterChoices ==
  {DefaultFilters,
   [DefaultFilters EXCEPT !.tags = <<"t1">>],
   [DefaultFilters EXCEPT !.wordCountMin = 6]}

\* what getDocuments may resolve with
Answers ==
  ListsOf({d \in Documents : d.id \in {"d1", "d5"}})

RemoveAt(seq, k) ==
  SubSeq(seq, 1, k - 1) \o SubSeq(seq, k + 1, Len(seq))

\* shown, passed and failed record, for the statement of the properties,
\* the search whose results are displayed, the search whose list went to
\* onResults last, and the searches that were rejected
SearchInit ==
  search = [filters |-> DefaultFilters, results |-> <<>>,
            loading |-> FALSE, inflight |-> <<>>,
            invoked |-> 0, settled |-> 0, onResults |-> 0,
            shown |-> 0, passed |-> 0, failed |-> {}]

DocListInit ==
  docList = [documents |-> <<>>, loading |-> TRUE, mountEffect |-> FALSE,
             inflight |-> <<>>, deleting |-> 0, deletes |-> 0,
             invoked |-> 0, settled |-> 0]

MountedInit == mounted \in {"AdvancedSearch", "DocumentList"}

OthersOfSearch ==
  <<categorizer, editor, upload, filterRun, docList, mounted, feedback,
    boundary,
    libraryVars, pageVars>>

OthersOfDocList ==
  <<categorizer, editor, upload, filterRun, search, mounted, feedback,
    boundary,
    libraryVars, pageVars>>

\* handleSearch up to `await getDocuments(searchFilters)`: the request keeps
\* the filters of the render that created this handleSearch
SearchWhenIdle(s) ==
  IF s.loading THEN [s EXCEPT !.invoked = @ + 1]
  ELSE [s EXCEPT !.loading = TRUE, !.invoked = @ + 1,
                 !.inflight = Append(@, [id |-> s.invoked + 1,
                                         filters |-> s.filters])]

SearchStarted(s) ==
  [s EXCEPT !.loading = TRUE, !.invoked = @ + 1,
            !.inflight = Append(@, [id |-> s.invoked + 1,
                                    filters |-> s.filters])]

setFilters ==
  /\ mounted = "AdvancedSearch"
  /\ \E f \in SearchFilterChoices :
       /\ f # search.filters
       /\ search' = [search EXCEPT !.filters = f]
  /\ UNCHANGED OthersOfSearch

handleClearFilters ==
  /\ mounted = "AdvancedSearch"
  /\ search' = [search EXCEPT !.filters = DefaultFilters, !.results = <<>>,
                              !.shown = 0]
  /\ UNCHANGED OthersOfSearch

\* the Search button is disabled while loading
SearchButton ==
  /\ mounted = "AdvancedSearch"
  /\ ~search.loading
  /\ search.invoked < MaxSearches
  /\ search' = SearchStarted(search)
  /\ UNCHANGED OthersOfSearch

\* Enter in the query field calls handleSearch whatever loading is
EnterKey ==
  /\ mounted = "AdvancedSearch"
  /\ search.invoked < MaxSearches
  /\ search' = SearchStarted(search)
  /\ UNCHANGED OthersOfSearch

\* getDocuments of request k resolves: filters, setResults, onResults, finally
SearchResolved(s, k, documents) ==
  [s EXCEPT !.results = FilterDocuments(documents, s.inflight[k].filters),
            !.onResults = @ + 1,
            !.loading = FALSE,
            !.settled = @ + 1,
            !.shown = s.inflight[k].id,
            !.passed = s.inflight[k].id,
            !.inflight = RemoveAt(@, k)]

SearchResolves ==
  /\ mounted = "AdvancedSearch"
  /\ \E k \in 1..Len(search.inflight), documents \in Answers :
       search' = SearchResolved(search, k, documents)
  /\ UNCHANGED OthersOfSearch

\* getDocuments of request k rejects: catch (log), finally
SearchRejects ==
  /\ mounted = "AdvancedSearch"
  /\ \E k \in 1..Len(search.inflight) :
       search' = [search EXCEPT !.loading = FALSE, !.settled = @ + 1,
                                !.failed = @ \cup {search.inflight[k].id},
                                !.inflight = RemoveAt(@, k)]
  /\ UNCHANGED OthersOfSearch

\* loadDocuments up to `await getDocuments(filters)`
LoadStarted(d) ==
  [d EXCEPT !.loading = TRUE, !.invoked = @ + 1,
            !.inflight = Append(@, d.invoked + 1)]

\* the mount effect
MountEffect ==
  /\ mounted = "DocumentList"
  /\ ~docList.mountEffect
  /\ docList' = LoadStarted([docList EXCEPT !.mountEffect = TRUE])
  /\ UNCHANGED OthersOfDocList

\* the list, its Search button and its delete buttons are rendered only
\* while loading is false
ListSearchButton ==
  /\ mounted = "DocumentList"
  /\ docList.mountEffect
  /\ ~docList.loading
  /\ docList.invoked < MaxSearches
  /\ docList' = LoadStarted(docList)
  /\ UNCHANGED OthersOfDocList

\* handleDeleteDocument up to `await deleteDocument(document.id)`, the
\* confirm dialog answered with OK
handleDeleteDocument ==
  /\ mounted = "DocumentList"
  /\ docList.mountEffect
  /\ ~docList.loading
  /\ Len(docList.documents) > 0
  /\ docList.deletes < MaxDeletes
  /\ docList' = [docList EXCEPT !.deleting = @ + 1, !.deletes = @ + 1]
  /\ UNCHANGED OthersOfDocList

\* deleteDocument resolves: `await loadDocuments()`
DeleteResolves ==
  /\ mounted = "DocumentList"
  /\ docList.deleting > 0
  /\ docList.invoked < MaxSearches
  /\ docList' = LoadStarted([docList EXCEPT !.deleting = @ - 1])
  /\ UNCHANGED OthersOfDocList

\* deleteDocument rejects: catch (log)
DeleteRejects ==
  /\ mounted = "DocumentList"
  /\ docList.deleting > 0
  /\ docList' = [docList EXCEPT !.deleting = @ - 1]
  /\ UNCHANGED OthersOfDocList

LoadResolved(d, k, documents) ==
  [d EXCEPT !.documents = documents, !.loading = FALSE,
            !.settled = @ + 1, !.inflight = RemoveAt(@, k)]

LoadResolves ==
  /\ mounted = "DocumentList"
  /\ \E k \in 1..Len(docList.inflight), documents \in Answers :
       docList' = LoadResolved(docList, k, documents)
  /\ UNCHANGED OthersOfDocList

LoadRejects ==
  /\ mounted = "DocumentList"
  /\ \E k \in 1..Len(docList.inflight) :
       docList' = [docList EXCEPT !.loading = FALSE, !.settled = @ + 1,
                                  !.inflight = RemoveAt(@, k)]
  /\ UNCHANGED OthersOfDocList

NextFetch ==
  \/ setFilters
  \/ handleClearFilters
  \/ SearchButton
  \/ EnterKey
  \/ SearchResolves
  \/ SearchRejects
  \/ MountEffect
  \/ ListSearchButton
  \/ handleDeleteDocument
  \/ DeleteResolves
  \/ DeleteRejects
  \/ LoadResolves
  \/ LoadRejects

(***************************************************************************)
(* POST /api/feedback                                                      *)
(***************************************************************************)
\* JSON values of the request body's fields
Undefined == [t |-> "undefined"]
Str(v) == [t |-> "string", v |-> v]
Num(v) == [t |-> "number", v |-> v]

\* timestamps are counted in days since the epoch: a Date holds at most
\* 8.64e15 ms, which is 100,000,000 days, to either side of it
MaxDateDays == 100000000

Truthy(x) ==
  CASE x.t = "undefined" -> FALSE
    [] x.t = "string" -> x.v # ""
    [] x.t = "number" -> x.v # 0

\* x < n and x > n for a number n; undefined converts to NaN, and every
\* comparison with NaN is false
Less(x, n) == x.t = "number" /\ x.v < n
Greater(x, n) == x.t = "number" /\ x.v > n

validTypes == {"bug", "feature", "general", "rating"}

FeedbackBodies ==
  [type : {Undefined, Str(""), Str("bug"), Str("feature"), Str("general"),
           Str("rating"), Str("praise")},
   message : {Undefined, Str(""), Str("text"), Num(7)},
   timestamp : {Undefined, Num(0), Num(19000), Num(MaxDateDays),
                Num(MaxDateDays + 1)},
   rating : {Undefined, Num(0), Num(1), Num(5), Num(6)}]

\* new Date(timestamp).toISOString() throws a RangeError for an invalid date
ValidDate(x) ==
  x.t = "number" /\ x.v <= MaxDateDays /\ -x.v <= MaxDateDays

BadRequest(error) == [status |-> 400, error |-> error, success |-> FALSE]
ServerError == [status |-> 500, error |-> "Internal server error",
                success |-> FALSE]
Success == [status |-> 200, error |-> "", success |-> TRUE]

\* the route handler, lines 20-95
POST(body) ==
  IF ~Truthy(body.type) \/ ~Truthy(body.message) \/ ~Truthy(body.timestamp)
  THEN BadRequest("Missing required fields")
  ELSE IF ~(body.type.t = "string" /\ body.type.v \in validTypes)
  THEN BadRequest("Invalid feedback type")
  ELSE IF body.type = Str("rating")
          /\ (~Truthy(body.rating) \/ Less(body.rating, 1)
              \/ Greater(body.rating, 5))
  THEN BadRequest("Rating must be between 1 and 5")
  ELSE IF body.message.t # "string"
  THEN ServerError     \* body.message.substring is not a function
  ELSE IF ~ValidDate(body.timestamp)
  THEN ServerError     \* RangeError: Invalid time value
  ELSE Success

FeedbackInit ==
  feedback = [handled |-> FALSE,
              body |-> [type |-> Undefined, message |-> Undefined,
                        timestamp |-> Undefined, rating |-> Undefined],
              response |-> Success]

OthersOfFeedback ==
  <<categorizer, editor, upload, filterRun, search, docList, mounted,
    boundary,
    libraryVars, pageVars>>

\* one request with a JSON object as its body
HandlePost ==
  /\ ~feedback.handled
  /\ \E body \in FeedbackBodies :
       feedback' = [handled |-> TRUE, body |-> body,
                    response |-> POST(body)]
  /\ UNCHANGED OthersOfFeedback

NextFeedback == HandlePost

(***************************************************************************)
(* ErrorBoundary                                                           *)
(***************************************************************************)
MaxThrows == 4

Errors == {"e1", "e2"}

\* render(): the fallback prop when it is truthy, else the static card
Render(b) ==
  IF b.hasError
  THEN IF b.fallback THEN "fallback" ELSE "card"
  ELSE "children"

\* static getDerivedStateFromError: merged into the state before the
\* re-render
DerivedState(b, error) ==
  [b EXCEPT !.hasError = TRUE, !.error = error]

\* componentDidCatch, in the commit that follows
DidCatch(b) ==
  [b EXCEPT !.errorInfo = b.error, !.pending = FALSE,
            !.onErrorCalls = IF b.onError THEN Append(@, b.error) ELSE @]

ResetKeepsError(b) ==
  [b EXCEPT !.hasError = FALSE, !.resets = @ + 1]

Reset(b) ==
  [b EXCEPT !.hasError = FALSE, !.error = "none", !.errorInfo = "none",
            !.resets = @ + 1]

BoundaryInit ==
  \E fallback \in BOOLEAN, onError \in BOOLEAN :
    boundary = [hasError |-> FALSE, error |-> "none", errorInfo |-> "none",
                fallback |-> fallback, onError |-> onError,
                pending |-> FALSE, onErrorCalls |-> <<>>,
                throws |-> <<>>, resets |-> 0]

OthersOfBoundary ==
  <<categorizer, editor, upload, filterRun, search, docList, mounted,
    feedback,
    libraryVars, pageVars>>

\* a child throws while the children are being rendered
ChildThrows ==
  /\ Render(boundary) = "children"
  /\ ~boundary.pending
  /\ Len(boundary.throws) < MaxThrows
  /\ \E error \in Errors :
       boundary' = [DerivedState(boundary, error) EXCEPT
                      !.pending = TRUE, !.throws = Append(@, error)]
  /\ UNCHANGED OthersOfBoundary

componentDidCatch ==
  /\ boundary.pending
  /\ boundary' = DidCatch(boundary)
  /\ UNCHANGED OthersOfBoundary

\* "Try Again" is a button of the static card only
handleReset ==
  /\ Render(boundary) = "card"
  /\ ~boundary.pending
  /\ boundary' = Reset(boundary)
  /\ UNCHANGED OthersOfBoundary

NextBoundary ==
  \/ ChildThrows
  \/ componentDidCatch
  \/ handleReset

(***************************************************************************)
(* ToastProvider: the toast queue                                          *)
(***************************************************************************)
MaxToasts == 3

defaultDuration == 5000

ToastIds == 1..MaxToasts

\* toast.duration: not given, 0, or a number of milliseconds
Durations == {Null, Some(0), Some(3000)}

\* toast.duration || 5000
TimerDelay(duration) ==
  IF duration = Null \/ duration = Some(0) THEN defaultDuration
  ELSE duration[1]

\* prev.filter(toast => toast.id !== id)
FilteredHeadOnly(queue, id) ==
  IF queue # <<>> /\ Head(queue).id = id THEN Tail(queue) ELSE queue

Filtered(queue, id) ==
  LET keep(toast) == toast.id # id IN SelectSeq(queue, keep)

\* addToast: ids are taken to be fresh (Math.random().toString(36)); `added`
\* keeps the duration of every toast that was added, by id
ToastAdded(t, duration) ==
  LET id == Len(t.added) + 1 IN
  [t EXCEPT !.queue = Append(@, [id |-> id, duration |-> duration]),
            !.added = Append(@, duration),
            !.timers = IF duration # Some(0)
                       THEN @ \cup {[id |-> id,
                                     delay |-> TimerDelay(duration)]}
                       ELSE @]

ToastsInit == toasts = [queue |-> <<>>, added |-> <<>>, timers |-> {}]

OthersOfToasts ==
  <<documentVars, perf, button, analytics, modal, monitoring, theme,
    navList, pageVars>>

addToast ==
  /\ Len(toasts.added) < MaxToasts
  /\ \E duration \in Durations : toasts' = ToastAdded(toasts, duration)
  /\ UNCHANGED OthersOfToasts

\* removeToast(id), called by a consumer of the context or by the dismiss
\* button of the toast
removeToast(id) ==
  /\ id <= Len(toasts.added)
  /\ toasts' = [toasts EXCEPT !.queue = Filtered(@, id)]
  /\ UNCHANGED OthersOfToasts

clearToasts ==
  /\ toasts' = [toasts EXCEPT !.queue = <<>>]
  /\ UNCHANGED OthersOfToasts

\* the auto-dismiss timer of toast id fires: removeToast(id)
TimerFires(id) ==
  /\ \E timer \in toasts.timers :
       /\ timer.id = id
       /\ toasts' = [toasts EXCEPT !.queue = Filtered(@, id),
                                   !.timers = @ \ {timer}]
  /\ UNCHANGED OthersOfToasts

NextToasts ==
  \/ addToast
  \/ \E id \in ToastIds : removeToast(id)
  \/ clearToasts
  \/ \E id \in ToastIds : TimerFires(id)

(***************************************************************************)
(* PerformanceDashboard: auto-refresh                                      *)
(***************************************************************************)
MaxReports == 5

refreshPeriod == 5000

\* generateReport(): setLoading(true) and the 100 ms timeout
GenerateReport(p) ==
  [p EXCEPT !.loading = TRUE, !.timeouts = @ + 1, !.started = @ + 1]

\* the cleanup the last run of the effect returned, if it returned one
RunCleanupForgets(p) == [p EXCEPT !.cleanup = Null]

RunCleanup(p) ==
  IF p.cleanup = Null THEN p
  ELSE [p EXCEPT !.intervals = {i \in @ : i.id # p.cleanup[1]},
                 !.cleanup = Null]

\* the body of the effect
RunEffect(p) ==
  LET q == GenerateReport(p) IN
  IF q.autoRefresh
  THEN [q EXCEPT !.intervals = @ \cup {[id |-> q.created + 1,
                                       period |-> refreshPeriod]},
                 !.created = @ + 1,
                 !.cleanup = Some(q.created + 1)]
  ELSE q

PerfInit ==
  perf = [mounted |-> FALSE, autoRefresh |-> FALSE, report |-> FALSE,
          loading |-> FALSE, intervals |-> {}, cleanup |-> Null,
          created |-> 0, timeouts |-> 0, stale |-> 0, started |-> 0,
          periodic |-> 0, generated |-> 0]

OthersOfPerf ==
  <<documentVars, toasts, button, analytics, modal, monitoring, theme,
    navList, pageVars>>

\* the component mounts with fresh state and its effect runs
PerfMount ==
  /\ ~perf.mounted
  /\ perf.started < MaxReports
  /\ perf' = RunEffect([perf EXCEPT !.mounted = TRUE,
                                    !.autoRefresh = FALSE,
                                    !.report = FALSE,
                                    !.loading = FALSE])
  /\ UNCHANGED OthersOfPerf

\* the auto-refresh button (rendered once there is a report): the state
\* changes, the old effect is cleaned up and the effect runs again
ToggleAutoRefresh ==
  /\ perf.mounted /\ perf.report
  /\ perf.started < MaxReports
  /\ perf' = RunEffect(RunCleanup([perf EXCEPT !.autoRefresh = ~@]))
  /\ UNCHANGED OthersOfPerf

\* the Refresh button, disabled while loading
RefreshButton ==
  /\ perf.mounted /\ perf.report /\ ~perf.loading
  /\ perf.started < MaxReports
  /\ perf' = GenerateReport(perf)
  /\ UNCHANGED OthersOfPerf

\* an interval timer fires: generateReport()
IntervalFires ==
  /\ perf.intervals # {}
  /\ perf.started < MaxReports
  /\ perf' = [GenerateReport(perf) EXCEPT
                !.periodic = @ + 1,
                !.loading = IF perf.mounted THEN TRUE ELSE perf.loading,
                !.timeouts = IF perf.mounted THEN @ ELSE perf.timeouts,
                !.stale = IF perf.mounted THEN @ ELSE @ + 1]
  /\ UNCHANGED OthersOfPerf

\* the 100 ms timeout of a generateReport fires: the report is generated and
\* stored
ReportTimeoutFires ==
  /\ perf.timeouts > 0
  /\ perf' = [perf EXCEPT !.timeouts = @ - 1, !.generated = @ + 1,
                          !.report = TRUE, !.loading = FALSE]
  /\ UNCHANGED OthersOfPerf

\* a timeout set before the unmount fires: its state updates go nowhere
StaleTimeoutFires ==
  /\ perf.stale > 0
  /\ perf' = [perf EXCEPT !.stale = @ - 1, !.generated = @ + 1]
  /\ UNCHANGED OthersOfPerf

\* the component unmounts: the effect's cleanup runs
PerfUnmount ==
  /\ perf.mounted
  /\ perf' = [RunCleanup(perf) EXCEPT !.mounted = FALSE,
                                      !.stale = @ + perf.timeouts,
                                      !.timeouts = 0]
  /\ UNCHANGED OthersOfPerf

NextPerf ==
  \/ PerfMount
  \/ ToggleAutoRefresh
  \/ RefreshButton
  \/ IntervalFires
  \/ ReportTimeoutFires
  \/ StaleTimeoutFires
  \/ PerfUnmount

(***************************************************************************)
(* Button                                                                  *)
(***************************************************************************)
MaxClicks == 2

\* a class string is the sequence of its class names
baseClasses == <<"btn-base">>

variantClasses ==
  [primary |-> <<"bg-primary-600", "text-white", "hover:bg-primary-700",
                 "focus:ring-primary-200">>,
   secondary |-> <<"bg-neutral-100", "text-neutral-700",
                   "hover:bg-neutral-200", "focus:ring-neutral-200">>,
   outline |-> <<"border-2", "border-neutral-300", "text-neutral-700",
                 "hover:bg-neutral-50", "focus:ring-neutral-200">>,
   ghost |-> <<"text-neutral-600", "hover:bg-neutral-100",
               "focus:ring-neutral-200">>,
   danger |-> <<"bg-error-500", "text-white", "hover:bg-error-600",
                "focus:ring-error-200">>]

sizeClasses ==
  [sm |-> <<"px-4", "py-2", "text-sm">>,
   md |-> <<"px-6", "py-3", "text-base">>,
   lg |-> <<"px-8", "py-4", "text-lg">>]

\* the props a Button may be rendered with; Null is a prop that is not given
ButtonProps ==
  [variant : {Null} \cup {Some(v) : v \in DOMAIN variantClasses},
   size : {Null} \cup {Some(z) : z \in DOMAIN sizeClasses},
   loading : {Null, Some(TRUE), Some(FALSE)},
   disabled : {Null, Some(TRUE), Some(FALSE)},
   className : {Null, Some(<<"custom-class">>)}]

\* a prop with its default value
OrDefault(prop, default) == IF prop = Null THEN default ELSE prop[1]

\* loading || disabled
DisabledAttrLoadingOnly(props) == OrDefault(props.loading, FALSE)

DisabledAttr(props) ==
  OrDefault(props.loading, FALSE) \/ OrDefault(props.disabled, FALSE)

\* cn(...): clsx drops the falsy arguments and joins the rest; none of the
\* class names here is a Tailwind utility that twMerge finds in conflict
\* with another one
Classes(props) ==
  baseClasses
  \o variantClasses[OrDefault(props.variant, "primary")]
  \o sizeClasses[OrDefault(props.size, "md")]
  \o (IF DisabledAttr(props) THEN <<"opacity-50", "cursor-not-allowed">>
      ELSE <<>>)
  \o OrDefault(props.className, <<>>)

\* a click on the button: the browser dispatches no click event on a
\* disabled button
Clicked(b) ==
  [b EXCEPT !.clicks = @ + 1,
            !.onClickCalls = IF b.disabledAttr THEN @ ELSE @ + 1]

ButtonInit ==
  button = [rendered |-> FALSE,
            props |-> [variant |-> Null, size |-> Null, loading |-> Null,
                       disabled |-> Null, className |-> Null],
            classes |-> <<>>, disabledAttr |-> FALSE,
            clicks |-> 0, onClickCalls |-> 0]

OthersOfButton ==
  <<documentVars, toasts, perf, analytics, modal, monitoring, theme,
    navList, pageVars>>

\* the parent renders the Button with some props
RenderButton ==
  /\ \E props \in ButtonProps :
       /\ ~button.rendered \/ props # button.props
       /\ button' = [button EXCEPT !.rendered = TRUE,
                                   !.props = props,
                                   !.classes = Classes(props),
                                   !.disabledAttr = DisabledAttr(props)]
  /\ UNCHANGED OthersOfButton

ButtonClick ==
  /\ button.rendered
  /\ button.clicks < MaxClicks
  /\ button' = Clicked(button)
  /\ UNCHANGED OthersOfButton

NextButton ==
  \/ RenderButton
  \/ ButtonClick

(***************************************************************************)
(* Analytics: sendEvent and POST /api/analytics                            *)
(***************************************************************************)
MaxEvents == 2

\* Date.now() at the moments events are sent, in days since the epoch
Clock == {19000, 19001}

\* JSON.stringify(payload) read back by request.json(): the route reads the
\* top-level members of the payload; a member the payload does not have
\* reads as undefined
JsonBody(payload) ==
  [event |-> payload.event,
   properties |-> payload.properties,
   timestamp |-> IF "timestamp" \in DOMAIN payload THEN payload.timestamp
                 ELSE Undefined,
   sessionId |-> IF "sessionId" \in DOMAIN payload THEN payload.sessionId
                 ELSE Undefined]

\* sendEvent: the payload has the two members event and properties; the
\* session id and the timestamp are members of properties.  The build is the
\* production build (isEnabled, and sendToEndpoint posts).
SendEvent(a, event, data, now) ==
  LET payload ==
        [event |-> Str(event),
         properties |-> [data |-> data,
                         sessionId |-> Str(a.sessionId),
                         userId |-> a.userId,
                         timestamp |-> Num(now)]]
  IN [a EXCEPT !.posted = Append(@, JsonBody(payload)),
               !.sent = @ + 1]

\* POST /api/analytics
AnalyticsPOST(body) ==
  IF ~Truthy(body.event) \/ ~Truthy(body.timestamp)
     \/ ~Truthy(body.sessionId)
  THEN BadRequest("Missing required fields")
  ELSE IF ~ValidDate(body.timestamp)
  THEN ServerError
  ELSE Success

AnalyticsInit ==
  analytics = [sessionId |-> "session_1", userId |-> Undefined,
               posted |-> <<>>, sent |-> 0, responses |-> <<>>]

OthersOfAnalytics ==
  <<documentVars, toasts, perf, button, modal, monitoring, theme, navList, pageVars>>

trackPageView ==
  /\ analytics.sent < MaxEvents
  /\ \E now \in Clock :
       analytics' = SendEvent(analytics, "page_view", "pageView", now)
  /\ UNCHANGED OthersOfAnalytics

trackInteraction ==
  /\ analytics.sent < MaxEvents
  /\ \E now \in Clock :
       analytics' =
         SendEvent(analytics, "user_interaction", "interaction", now)
  /\ UNCHANGED OthersOfAnalytics

trackPerformance ==
  /\ analytics.sent < MaxEvents
  /\ \E now \in Clock :
       analytics' = SendEvent(analytics, "performance", "metric", now)
  /\ UNCHANGED OthersOfAnalytics

trackAnalyticsError ==
  /\ analytics.sent < MaxEvents
  /\ \E now \in Clock :
       analytics' = SendEvent(analytics, "error", "errorType", now)
  /\ UNCHANGED OthersOfAnalytics

trackFeature ==
  /\ analytics.sent < MaxEvents
  /\ \E now \in Clock :
       analytics' = SendEvent(analytics, "feature_usage", "feature", now)
  /\ UNCHANGED OthersOfAnalytics

identify ==
  /\ analytics.sent < MaxEvents
  /\ \E now \in Clock :
       analytics' =
         SendEvent([analytics EXCEPT !.userId = Str("u1")],
                   "user_identify", "traits", now)
  /\ UNCHANGED OthersOfAnalytics

\* the route answers the oldest request that was posted
AnalyticsRouteAnswers ==
  /\ Len(analytics.responses) < Len(analytics.posted)
  /\ analytics' =
       [analytics EXCEPT
          !.responses =
            Append(@, AnalyticsPOST(
                        analytics.posted[Len(analytics.responses) + 1]))]
  /\ UNCHANGED OthersOfAnalytics

NextAnalytics ==
  \/ trackPageView
  \/ trackInteraction
  \/ trackPerformance
  \/ trackAnalyticsError
  \/ trackFeature
  \/ identify
  \/ AnalyticsRouteAnswers

(***************************************************************************)
(* Modal                                                                   *)
(***************************************************************************)
MaxMatched == 3
MaxOpens == 2

\* document.activeElement: the body, an element of the page under the modal
\* (the control that opens it), or the k-th element of the modal that the
\* selector 'button, [href], input, select, textarea, [tabindex]...' matches
Body == 0
Trigger == -1

\* the children of a modal: for each element the selector matches, in
\* document order, whether it is enabled (a disabled button is matched by
\* 'button' like any other; ConfirmDialog disables its buttons while loading)
RECURSIVE MatchedElements(_)
MatchedElements(n) ==
  IF n = 0 THEN {<<>>}
  ELSE MatchedElements(n - 1)
       \cup {Append(e, b) : e \in {x \in MatchedElements(n - 1) :
                                     Len(x) = n - 1},
                            b \in BOOLEAN}

InModal(el) == el >= 1

\* element.focus(): nothing happens on a disabled element
Focus(m, k) ==
  IF InModal(k) /\ ~m.elements[k] THEN m ELSE [m EXCEPT !.active = k]

\* the isOpen effect, lines 489-518, after isOpen became true
Opened(m) ==
  LET saved == [m EXCEPT !.previousFocus = Some(m.active)]
  IN IF Len(m.elements) > 0 THEN Focus(saved, 1) ELSE saved

\* isOpen became false: the modal renders null, so an element of it that had
\* the focus loses it to the body; then the effect restores the focus
Closed(m) ==
  LET removed == [m EXCEPT !.isOpen = FALSE,
                           !.elements = <<>>,
                           !.active = IF InModal(@) THEN Body ELSE @]
  IN IF removed.previousFocus # Null
     THEN Focus(removed, removed.previousFocus[1])
     ELSE removed

\* onClose as useModal gives it: close = setIsOpen(false)
OnClose(m) == Closed([m EXCEPT !.onCloseCalls = @ + 1])

\* the element a pointer click lands on: the backdrop div covers the whole
\* container (absolute inset-0) and the panel lies over the backdrop
HitTest(area) == IF area = "panel" THEN "panel" ELSE "backdrop"

\* handleBackdropClick, the container's onClick; currentTarget is the
\* container
handleBackdropClick(m, target) ==
  IF target = "container" /\ m.closeOnBackdropClick THEN OnClose(m) ELSE m

\* the browser's Tab when no handler prevents it: the next (previous)
\* tabbable element of the document, which are the page's control and the
\* enabled elements of the modal
TabOrder(m) ==
  <<Trigger>> \o SelectSeq([k \in 1..Len(m.elements) |-> k],
                           LAMBDA k : m.elements[k])

DefaultTab(m, shift) ==
  LET order == TabOrder(m)
      n == Len(order)
      at == IF \E p \in 1..n : order[p] = m.active
            THEN CHOOSE p \in 1..n : order[p] = m.active
            ELSE IF shift THEN 1 ELSE n
  IN [m EXCEPT !.active = IF shift THEN order[((at + n - 2) % n) + 1]
                          ELSE order[(at % n) + 1]]

\* handleTab, lines 538-563
handleTab(m, shift) ==
  IF Len(m.elements) = 0 THEN DefaultTab(m, shift)
  ELSE LET firstElement == 1
           lastElement == Len(m.elements)
       IN IF shift
          THEN IF m.active = firstElement THEN Focus(m, lastElement)
               ELSE DefaultTab(m, shift)
          ELSE IF m.active = lastElement THEN Focus(m, firstElement)
               ELSE DefaultTab(m, shift)

NoEvent == [event |-> "none", area |-> "", shift |-> FALSE, before |-> Body,
            elements |-> <<>>, closeOnBackdropClick |-> FALSE,
            called |-> FALSE]

ModalInit ==
  modal = [isOpen |-> FALSE, closeOnBackdropClick |-> TRUE,
           closeOnEscape |-> TRUE, elements |-> <<>>, active |-> Body,
           previousFocus |-> Null, onCloseCalls |-> 0, opens |-> 0,
           last |-> NoEvent]

OthersOfModal ==
  <<documentVars, toasts, perf, button, analytics, monitoring, theme, navList, pageVars>>

Event(m, name, area, shift) ==
  [event |-> name, area |-> area, shift |-> shift, before |-> m.active,
   elements |-> m.elements, closeOnBackdropClick |-> m.closeOnBackdropClick,
   called |-> FALSE]

Handled(m, event, after) ==
  [after EXCEPT !.last =
     [event EXCEPT !.called = after.onCloseCalls > m.onCloseCalls]]

\* the user focuses a control of the page while no modal is open
PageFocus ==
  /\ ~modal.isOpen
  /\ \E el \in {Body, Trigger} :
       /\ el # modal.active
       /\ modal' = [modal EXCEPT !.active = el, !.last = NoEvent]
  /\ UNCHANGED OthersOfModal

\* the parent renders the modal with isOpen = true
ModalOpen ==
  /\ ~modal.isOpen
  /\ modal.opens < MaxOpens
  /\ \E backdrop \in BOOLEAN, escape \in BOOLEAN,
        elements \in MatchedElements(MaxMatched) :
       LET m == [modal EXCEPT !.isOpen = TRUE,
                              !.closeOnBackdropClick = backdrop,
                              !.closeOnEscape = escape,
                              !.elements = elements,
                              !.opens = @ + 1]
       IN modal' = Handled(modal, Event(m, "open", "", FALSE), Opened(m))
  /\ UNCHANGED OthersOfModal

\* the parent renders the modal with isOpen = false
ModalClose ==
  /\ modal.isOpen
  /\ modal' = Handled(modal, Event(modal, "close", "", FALSE), Closed(modal))
  /\ UNCHANGED OthersOfModal

\* a mouse click at a point of the open modal's container
PointerClick ==
  /\ modal.isOpen
  /\ \E area \in {"outside", "panel"} :
       modal' = Handled(modal, Event(modal, "click", area, FALSE),
                        handleBackdropClick(modal, HitTest(area)))
  /\ UNCHANGED OthersOfModal

\* a click event dispatched on the container element itself
DispatchClick ==
  /\ modal.isOpen
  /\ modal' = Handled(modal, Event(modal, "dispatch", "container", FALSE),
                      handleBackdropClick(modal, "container"))
  /\ UNCHANGED OthersOfModal

\* handleEscape; the listener is there while isOpen and closeOnEscape
KeyEscape ==
  /\ modal.isOpen
  /\ modal.closeOnEscape
  /\ modal' = Handled(modal, Event(modal, "escape", "", FALSE),
                      OnClose(modal))
  /\ UNCHANGED OthersOfModal

\* Tab or Shift+Tab while the modal is open
KeyTab ==
  /\ modal.isOpen
  /\ \E shift \in BOOLEAN :
       modal' = Handled(modal, Event(modal, "tab", "", shift),
                        handleTab(modal, shift))
  /\ UNCHANGED OthersOfModal

NextModal ==
  \/ PageFocus
  \/ ModalOpen
  \/ ModalClose
  \/ PointerClick
  \/ DispatchClick
  \/ KeyEscape
  \/ KeyTab

(***************************************************************************)
(* Monitoring buffers                                                      *)
(***************************************************************************)
MaxMetrics == 102
MaxErrors == 52

metricsLimit == 100
errorsLimit == 50

\* array.slice(0, n), the oldest n entries
SliceOldest(array, n) == SubSeq(array, 1, n)

\* array.slice(-n) of an array with more than n entries
Slice(array, n) == SubSeq(array, Len(array) - n + 1, Len(array))

getMetrics == monitoring.metrics

getErrors == monitoring.errors

\* recordedMetrics and recordedErrors are the history of the calls, kept
\* for the statement of the properties; the class has no such fields
MonitoringInit ==
  monitoring = [metrics |-> <<>>, errors |-> <<>>, userId |-> Undefined,
                recordedMetrics |-> <<>>, recordedErrors |-> <<>>]

OthersOfMonitoring ==
  <<documentVars, toasts, perf, button, analytics, modal, theme, navList, pageVars>>

\* a metric is identified by the number of the call that recorded it
recordMetric ==
  /\ Len(monitoring.recordedMetrics) < MaxMetrics
  /\ LET metric == [call |-> Len(monitoring.recordedMetrics) + 1]
         pushed == Append(monitoring.metrics, metric)
     IN monitoring' =
          [monitoring EXCEPT
             !.metrics = IF Len(pushed) > metricsLimit
                         THEN Slice(pushed, metricsLimit) ELSE pushed,
             !.recordedMetrics = Append(@, metric)]
  /\ UNCHANGED OthersOfMonitoring

trackError ==
  /\ Len(monitoring.recordedErrors) < MaxErrors
  /\ LET errorInfo == [call |-> Len(monitoring.recordedErrors) + 1,
                       userId |-> monitoring.userId]
         pushed == Append(monitoring.errors, errorInfo)
     IN monitoring' =
          [monitoring EXCEPT
             !.errors = IF Len(pushed) > errorsLimit
                        THEN Slice(pushed, errorsLimit) ELSE pushed,
             !.recordedErrors = Append(@, errorInfo)]
  /\ UNCHANGED OthersOfMonitoring

identifyUser ==
  /\ monitoring.userId = Undefined
  /\ monitoring' = [monitoring EXCEPT !.userId = Str("u1")]
  /\ UNCHANGED OthersOfMonitoring

NextMonitoring ==
  \/ recordMetric
  \/ trackError
  \/ identifyUser

(***************************************************************************)
(* ThemeToggle                                                             *)
(***************************************************************************)
Themes == {"light", "dark", "system"}

Variants == {"button", "dropdown"}

\* the places where the layout renders a ThemeToggle: the desktop header
\* and the mobile header, both in the document at the same time
Toggles == {"desktop", "mobile"}

\* window.matchMedia('(prefers-color-scheme: dark)').matches
systemTheme(th) == IF th.prefersDark THEN "dark" ELSE "light"

\* the [theme, mounted] effect of a mounted toggle, lines 727-742
ApplyTheme(th, newTheme) ==
  [th EXCEPT
     !.rootClasses = (@ \ {"light", "dark"})
                     \cup {IF newTheme = "system" THEN systemTheme(th)
                           ELSE newTheme},
     !.storage = Some(newTheme)]

\* the theme the control of a toggle selects: the button variant switches
\* between dark and light, the dropdown offers the three themes
Selectable(toggle) ==
  IF toggle.variant = "dropdown" THEN Themes
  ELSE {IF toggle.theme = "dark" THEN "light" ELSE "dark"}

NoThemeEvent == [event |-> "none", selected |-> "", theme |-> "",
                 after |-> Null]

Unmounted == [phase |-> "unmounted", theme |-> "system",
              variant |-> "button", after |-> Null]

\* selected and after record, for the statement of the properties, the
\* theme the user selected last and the selection a toggle was mounted after
ThemeInit ==
  theme = [storage |-> Null, rootClasses |-> {}, prefersDark |-> FALSE,
           toggles |-> [i \in Toggles |-> Unmounted],
           selected |-> Null, last |-> NoThemeEvent]

OthersOfTheme ==
  <<documentVars, toasts, perf, button, analytics, modal, monitoring,
    navList, pageVars>>

\* first render and the effects after it: the mount effect reads the saved
\* theme and sets the state; the theme effect returns since mounted is
\* still false in its render
ThemeMount(i) ==
  /\ theme.toggles[i].phase = "unmounted"
  /\ \E variant \in Variants :
       theme' =
         [theme EXCEPT
            !.toggles[i] =
              [phase |-> "mounting",
               theme |-> IF theme.storage # Null THEN theme.storage[1]
                         ELSE "system",
               variant |-> variant,
               after |-> theme.selected],
            !.last = NoThemeEvent]
  /\ UNCHANGED OthersOfTheme

\* the render with mounted = true and the theme effect after it
ThemeMounted(i) ==
  /\ theme.toggles[i].phase = "mounting"
  /\ LET toggle == theme.toggles[i]
         applied == ApplyTheme(theme, toggle.theme)
     IN theme' =
          [applied EXCEPT
             !.toggles[i].phase = "mounted",
             !.last = [event |-> "mounted", selected |-> "",
                       theme |-> toggle.theme, after |-> toggle.after]]
  /\ UNCHANGED OthersOfTheme

\* handleThemeChange from a click on the control of a mounted toggle:
\* setTheme with the current theme renders nothing and runs no effect.
\* A toggle that is between its two renders was not mounted after this
\* selection.
handleThemeChange(i) ==
  /\ theme.toggles[i].phase = "mounted"
  /\ \E newTheme \in Selectable(theme.toggles[i]) :
       LET changed == IF newTheme = theme.toggles[i].theme THEN theme
                      ELSE ApplyTheme(theme, newTheme)
       IN theme' =
            [changed EXCEPT
               !.toggles =
                 [j \in Toggles |->
                    IF j = i THEN [@[j] EXCEPT !.theme = newTheme]
                    ELSE IF @[j].phase = "mounting"
                    THEN [@[j] EXCEPT !.after = Null]
                    ELSE @[j]],
               !.selected = Some(newTheme),
               !.last = [event |-> "select", selected |-> newTheme,
                         theme |-> newTheme, after |-> Null]]
  /\ UNCHANGED OthersOfTheme

ThemeUnmount(i) ==
  /\ theme.toggles[i].phase # "unmounted"
  /\ theme' = [theme EXCEPT !.toggles[i] = Unmounted,
                            !.last = NoThemeEvent]
  /\ UNCHANGED OthersOfTheme

\* the user changes the colour scheme of the operating system
PreferenceChanges ==
  /\ theme' = [theme EXCEPT !.prefersDark = ~@, !.last = NoThemeEvent]
  /\ UNCHANGED OthersOfTheme

NextTheme ==
  \/ \E i \in Toggles : ThemeMount(i)
  \/ \E i \in Toggles : ThemeMounted(i)
  \/ \E i \in Toggles : handleThemeChange(i)
  \/ \E i \in Toggles : ThemeUnmount(i)
  \/ PreferenceChanges

(***************************************************************************)
(* KeyboardNavigationList                                                  *)
(***************************************************************************)
MaxItems == 3

NavKeys == {"ArrowDown", "ArrowUp", "ArrowRight", "ArrowLeft", "Home", "End",
            "Enter", " ", "Escape"}

\* the item lists: the item at index k (from 0) has id k and may be disabled
ItemLists ==
  UNION {{[k \in 1..n |-> [id |-> k - 1, disabled |-> flags[k]]] :
            flags \in [1..n -> BOOLEAN]} : n \in 0..MaxItems}

Item(nl, index) == nl.items[index + 1]

\* the do-while loop of focusItem: the next index, going round, that is not
\* disabled, or index itself when the loop comes back to it
RECURSIVE NextIndex(_, _, _)
NextIndex(nl, index, nextIndex) ==
  LET next == (nextIndex + 1 + Len(nl.items)) % Len(nl.items)
  IN IF Item(nl, next).disabled /\ next # index
     THEN NextIndex(nl, index, next)
     ELSE next

\* setFocusedIndex(index) whatever the item is
focusItemAnyway(nl, index) ==
  IF index < 0 \/ index >= Len(nl.items) THEN nl
  ELSE [nl EXCEPT !.focusedIndex = index]

focusItem(nl, index) ==
  IF index < 0 \/ index >= Len(nl.items) THEN nl
  ELSE IF Item(nl, index).disabled
  THEN LET nextIndex == NextIndex(nl, index, index)
       IN IF Item(nl, nextIndex).disabled THEN nl
          ELSE [nl EXCEPT !.focusedIndex = nextIndex]
  ELSE [nl EXCEPT !.focusedIndex = index]

handleKeyDown(nl, key) ==
  CASE key = (IF nl.orientation = "vertical" THEN "ArrowDown"
              ELSE "ArrowRight") ->
         IF nl.focusedIndex < Len(nl.items) - 1
         THEN focusItem(nl, nl.focusedIndex + 1)
         ELSE IF nl.loop THEN focusItem(nl, 0) ELSE nl
    [] key = (IF nl.orientation = "vertical" THEN "ArrowUp"
              ELSE "ArrowLeft") ->
         IF nl.focusedIndex > 0
         THEN focusItem(nl, nl.focusedIndex - 1)
         ELSE IF nl.loop THEN focusItem(nl, Len(nl.items) - 1) ELSE nl
    [] key = "Home" -> focusItem(nl, 0)
    [] key = "End" -> focusItem(nl, Len(nl.items) - 1)
    [] key \in {"Enter", " "} ->
         IF nl.focusedIndex >= 0 /\ ~Item(nl, nl.focusedIndex).disabled
         THEN [nl EXCEPT !.selected = @ \cup {Item(nl, nl.focusedIndex).id}]
         ELSE nl
    [] key = "Escape" -> [nl EXCEPT !.focusedIndex = -1]
    [] OTHER -> nl

\* selected holds the ids onSelect was called with
NavListInit ==
  navList = [mounted |-> FALSE, items |-> <<>>, orientation |-> "vertical",
             loop |-> TRUE, focusedIndex |-> -1, selected |-> {},
             key |-> ""]

OthersOfNavList ==
  <<documentVars, toasts, perf, button, analytics, modal, monitoring, theme, pageVars>>

NavListMount ==
  /\ ~navList.mounted
  /\ \E items \in ItemLists, orientation \in {"vertical", "horizontal"},
        loop \in BOOLEAN :
       navList' = [navList EXCEPT !.mounted = TRUE, !.items = items,
                                  !.orientation = orientation,
                                  !.loop = loop]
  /\ UNCHANGED OthersOfNavList

NavKeyDown ==
  /\ navList.mounted
  /\ \E key \in NavKeys :
       navList' = [handleKeyDown(navList, key) EXCEPT !.key = key]
  /\ UNCHANGED OthersOfNavList

NextNavList ==
  \/ NavListMount
  \/ NavKeyDown

(***************************************************************************)
(* DashboardPage: the view state machine                                   *)
(***************************************************************************)
MaxOrphanSaves == 2

DashboardDocuments == {"d1", "d2"}

\* a DocumentEditor is rendered in the editor view, and in the preview view
\* when there is a selected document
EditorRendered(d) ==
  \/ d.currentView = "editor"
  \/ d.currentView = "preview" /\ d.selectedDocument # Null

\* rendering another view unmounts the editor; a save it has in flight goes
\* on and will still call the onSave it was given
Rendered(before, after) ==
  LET left == EditorRendered(before) /\ ~EditorRendered(after)
  IN [after EXCEPT
        !.editorSaving = IF left THEN FALSE ELSE @,
        !.orphanSaves = IF left /\ before.editorSaving THEN @ + 1 ELSE @,
        !.visited = @ \cup {after.currentView}]

\* the editor may be left with a save in flight while the saves of editors
\* left before are fewer than the bound
CanLeave(d) == ~d.editorSaving \/ d.orphanSaves < MaxOrphanSaves

\* setCurrentView('preview') without the document
SelectedWithoutDocument(d, document) == [d EXCEPT !.currentView = "preview"]

Selected(d, document) ==
  [d EXCEPT !.selectedDocument = Some(document), !.currentView = "preview"]

Edited(d, document) ==
  [d EXCEPT !.selectedDocument = Some(document), !.currentView = "editor"]

Created(d) == [d EXCEPT !.selectedDocument = Null, !.currentView = "editor"]

BackToList(d) == [d EXCEPT !.selectedDocument = Null, !.currentView = "list"]

DashboardEvent(name, document) == [event |-> name, document |-> document]

\* visited and last record, for the statement of the properties, the views
\* the page has shown and the handler that ran last
DashboardInit ==
  dashboard = [currentView |-> "list", selectedDocument |-> Null,
               editorSaving |-> FALSE, orphanSaves |-> 0,
               visited |-> {"list"}, last |-> DashboardEvent("none", Null)]

OthersOfDashboard == <<documentVars, libraryVars, readingTimes>>

\* a click on a document of the list
handleDocumentSelect ==
  /\ dashboard.currentView = "list"
  /\ \E document \in DashboardDocuments :
       dashboard' =
         [Rendered(dashboard, Selected(dashboard, document)) EXCEPT
            !.last = DashboardEvent("select", Some(document))]
  /\ UNCHANGED OthersOfDashboard

\* a click on the edit button of a document of the list
handleDocumentEdit ==
  /\ dashboard.currentView = "list"
  /\ \E document \in DashboardDocuments :
       dashboard' =
         [Rendered(dashboard, Edited(dashboard, document)) EXCEPT
            !.last = DashboardEvent("edit", Some(document))]
  /\ UNCHANGED OthersOfDashboard

\* the list's Create button
handleDocumentCreate ==
  /\ dashboard.currentView = "list"
  /\ dashboard' = [Rendered(dashboard, Created(dashboard)) EXCEPT
                     !.last = DashboardEvent("create", Null)]
  /\ UNCHANGED OthersOfDashboard

\* the editor's Save button, disabled while its save is in flight
DashboardSaveClicked ==
  /\ EditorRendered(dashboard)
  /\ ~dashboard.editorSaving
  /\ dashboard' = [dashboard EXCEPT !.editorSaving = TRUE,
                                    !.last = DashboardEvent("none", Null)]
  /\ UNCHANGED OthersOfDashboard

\* the save of the rendered editor resolves and calls onSave
handleDocumentSave ==
  /\ dashboard.editorSaving
  /\ dashboard' =
       [Rendered([dashboard EXCEPT !.editorSaving = FALSE],
                 BackToList([dashboard EXCEPT !.editorSaving = FALSE]))
          EXCEPT !.last = DashboardEvent("save", Null)]
  /\ UNCHANGED OthersOfDashboard

\* the save of an editor that is no longer rendered resolves and calls onSave
OrphanSaveResolves ==
  /\ dashboard.orphanSaves > 0
  /\ dashboard' =
       [Rendered(dashboard, BackToList(dashboard)) EXCEPT
          !.orphanSaves = @ - 1,
          !.last = DashboardEvent("save", Null)]
  /\ UNCHANGED OthersOfDashboard

\* a save rejects: the editor alerts and calls nothing
DashboardSaveRejects ==
  /\ dashboard.editorSaving \/ dashboard.orphanSaves > 0
  /\ \/ /\ dashboard.editorSaving
        /\ dashboard' = [dashboard EXCEPT
                           !.editorSaving = FALSE,
                           !.last = DashboardEvent("none", Null)]
     \/ /\ dashboard.orphanSaves > 0
        /\ dashboard' = [dashboard EXCEPT
                           !.orphanSaves = @ - 1,
                           !.last = DashboardEvent("none", Null)]
  /\ UNCHANGED OthersOfDashboard

\* the editor's Cancel button
handleCancel ==
  /\ EditorRendered(dashboard)
  /\ CanLeave(dashboard)
  /\ dashboard' = [Rendered(dashboard, BackToList(dashboard)) EXCEPT
                     !.last = DashboardEvent("cancel", Null)]
  /\ UNCHANGED OthersOfDashboard

\* the navigation buttons: setCurrentView alone
Navigate(view) ==
  /\ CanLeave(dashboard)
  /\ dashboard' =
       [Rendered(dashboard, [dashboard EXCEPT !.currentView = view]) EXCEPT
          !.last = DashboardEvent("navigate", Null)]
  /\ UNCHANGED OthersOfDashboard

NavDocuments == Navigate("list")

NavPerformance == Navigate("performance")

NextDashboard ==
  \/ handleDocumentSelect
  \/ handleDocumentEdit
  \/ handleDocumentCreate
  \/ DashboardSaveClicked
  \/ handleDocumentSave
  \/ OrphanSaveResolves
  \/ DashboardSaveRejects
  \/ handleCancel
  \/ NavDocuments
  \/ NavPerformance

(***************************************************************************)
(* Reading times: the four places that compute one from a content string  *)
(***************************************************************************)
MaxContentLen == 4

\* the strings of up to n characters over a word character, a space and a
\* line break
RECURSIVE StringsUpTo(_)
StringsUpTo(n) ==
  IF n = 0 THEN {<<>>}
  ELSE StringsUpTo(n - 1)
       \cup {Append(s, c) : s \in {x \in StringsUpTo(n - 1) : Len(x) = n - 1},
                            c \in {"w", " ", "\n"}}

ReadingContents == StringsUpTo(MaxContentLen)

\* DocumentEditor.handleSave: word_count and reading_time of documentData
SavedReadingTime(content) == Ceil(WordCount(content), WordsPerMinute)

\* parseMarkdown of a text without front matter: the content is the trimmed
\* text
ParsedReadingTime(markdown) ==
  Ceil(WordCount(Trim(markdown)), WordsPerMinute)

\* analyzeDocument when the completion was parsed
AiReadingTime(content) ==
  aiAnalysis(content, "content_object").estimatedReadingTime

\* analyzeDocument when it fell back
FallbackReadingTime(content) == fallbackAnalysis(content).estimatedReadingTime

ReadingTimesInit ==
  readingTimes = [place |-> "none", content |-> <<>>, value |-> 0]

OthersOfReadingTimes == <<documentVars, libraryVars, dashboard>>

Computed(place, content, value) ==
  /\ readingTimes' = [place |-> place, content |-> content, value |-> value]
  /\ UNCHANGED OthersOfReadingTimes

EditorSaves ==
  \E content \in ReadingContents :
    Computed("handleSave", content, SavedReadingTime(content))

parseMarkdown ==
  \E content \in ReadingContents :
    Computed("parseMarkdown", content, ParsedReadingTime(content))

AnalyzeDocumentAnswers ==
  \E content \in ReadingContents :
    Computed("analyzeDocument", content, AiReadingTime(content))

AnalyzeDocumentFallsBack ==
  \E content \in ReadingContents :
    Computed("fallbackAnalysis", content, FallbackReadingTime(content))

NextReadingTimes ==
  \/ EditorSaves
  \/ parseMarkdown
  \/ AnalyzeDocumentAnswers
  \/ AnalyzeDocumentFallsBack

(***************************************************************************)
(* Specifications: one per component                                       *)
(***************************************************************************)
Init ==
  /\ CategorizerInit
  /\ EditorInit
  /\ UploadInit
  /\ FilterRunInit
  /\ SearchInit
  /\ DocListInit
  /\ MountedInit
  /\ FeedbackInit
  /\ BoundaryInit
  /\ ToastsInit
  /\ PerfInit
  /\ ButtonInit
  /\ AnalyticsInit
  /\ ModalInit
  /\ MonitoringInit
  /\ ThemeInit
  /\ NavListInit
  /\ DashboardInit
  /\ ReadingTimesInit

\* in a component's specification the initial choices of the other
\* components are fixed
OthersFixed ==
  /\ categorizer.apiKey /\ categorizer.content = <<>>
  /\ editor.document = "none"
  /\ mounted = "AdvancedSearch"
  /\ ~boundary.fallback /\ ~boundary.onError

InitAI ==
  /\ Init /\ editor.document = "none" /\ mounted = "AdvancedSearch"
  /\ ~boundary.fallback /\ ~boundary.onError

InitEditor ==
  /\ Init /\ categorizer.apiKey /\ categorizer.content = <<>>
  /\ mounted = "AdvancedSearch" /\ ~boundary.fallback /\ ~boundary.onError

InitFetch ==
  /\ Init /\ categorizer.apiKey /\ categorizer.content = <<>>
  /\ editor.document = "none" /\ ~boundary.fallback /\ ~boundary.onError

InitBoundary ==
  /\ Init /\ categorizer.apiKey /\ categorizer.content = <<>>
  /\ editor.document = "none" /\ mounted = "AdvancedSearch"

InitFixed == Init /\ OthersFixed

SpecAI == InitAI /\ [][NextAI]_vars

SpecEditor == InitEditor /\ [][NextEditor]_vars

SpecUpload == InitFixed /\ [][NextUpload]_vars

SpecFilter == InitFixed /\ [][NextFilter]_vars

SpecFetch == InitFetch /\ [][NextFetch]_vars

SpecFeedback == InitFixed /\ [][NextFeedback]_vars

SpecBoundary == InitBoundary /\ [][NextBoundary]_vars

SpecPerf == InitFixed /\ [][NextPerf]_vars

SpecButton == InitFixed /\ [][NextButton]_vars

SpecAnalytics == InitFixed /\ [][NextAnalytics]_vars

SpecModal == InitFixed /\ [][NextModal]_vars

SpecMonitoring == InitFixed /\ [][NextMonitoring]_vars

SpecTheme == InitFixed /\ [][NextTheme]_vars

SpecNavList == InitFixed /\ [][NextNavList]_vars

SpecDashboard == InitFixed /\ [][NextDashboard]_vars

SpecReadingTimes == InitFixed /\ [][NextReadingTimes]_vars

\* a timer that was set fires: nothing clears the auto-dismiss timers
SpecToasts ==
  /\ InitFixed
  /\ [][NextToasts]_vars
  /\ \A id \in ToastIds : WF_vars(TimerFires(id))

Next ==
  \/ NextAI
  \/ NextEditor
  \/ NextUpload
  \/ NextFilter
  \/ NextFetch
  \/ NextFeedback
  \/ NextBoundary
  \/ NextToasts
  \/ NextPerf
  \/ NextButton
  \/ NextAnalytics
  \/ NextModal
  \/ NextMonitoring
  \/ NextTheme
  \/ NextNavList
  \/ NextDashboard
  \/ NextReadingTimes

Spec == Init /\ [][Next]_vars

(***************************************************************************)
(* Claims                                                                  *)
(***************************************************************************)

\* C1: analyzeDocument never rejects.  Whenever its promise has settled it is
\* resolved; if the key was missing, the fetch threw, the status was not OK
\* or the response or the message content was no JSON, it is resolved with
\* the keyword fallback (confidence 0.6, sentiment neutral); and a value with
\* confidence 0.85 is returned only after the HTTP call succeeded and the
\* message content parsed as JSON.
C1_NeverRejects ==
  /\ categorizer.promise # "rejected"
  /\ categorizer.pc = "settled" => categorizer.promise = "resolved"
  /\ categorizer.promise = "resolved" =>
       /\ categorizer.value.kind \in {"fallback", "ai"}
       /\ (~categorizer.apiKey \/ ~categorizer.httpOk
           \/ ~categorizer.parsedJson) =>
            /\ categorizer.value.kind = "fallback"
            /\ categorizer.value.confidence = 60
            /\ categorizer.value.sentiment = "neutral"
       /\ categorizer.value.confidence = 85 =>
            /\ categorizer.apiKey
            /\ categorizer.httpOk
            /\ categorizer.parsedJson
  /\ categorizer.result # NoValue =>
       categorizer.result.confidence \in {60, 85}

\* C1 witness: a call whose completion was not JSON has resolved with the
\* fallback and handleAnalyze has stored it
C1_Witness ==
  /\ categorizer.failure = "content_not_json"
  /\ categorizer.pc = "idle"
  /\ categorizer.httpOk
  /\ categorizer.result.kind = "fallback"
  /\ categorizer.result.confidence = 60

\* C2: a call of analyzeDocument sends at most one HTTP request; once the
\* call has failed no request of it is in flight, so the requests sent never
\* outnumber the analyses the user started.
C2_OneRequestPerCall ==
  /\ categorizer.requestsThisCall <= 1
  /\ categorizer.httpRequests <= categorizer.calls
  /\ categorizer.failure # "none" => categorizer.pc \in {"settled", "idle"}
  /\ ~categorizer.apiKey => categorizer.httpRequests = 0

\* C2 witness: after a first analysis whose request failed, a second analysis
\* has sent the second request
C2_Witness ==
  /\ categorizer.calls = 2
  /\ categorizer.httpRequests = 2
  /\ categorizer.pc = "fetching"
  /\ categorizer.result.kind = "fallback"

\* the one call handleSave makes for the editor's document prop
ExpectedWrite ==
  IF editor.document # "none"
  THEN [op |-> "updateDocument", id |-> editor.document]
  ELSE [op |-> "createDocument", id |-> "none"]

\* C3: in DocumentEditor the list of backend writes changes only in a Save
\* step taken with a non-blank title, whatever edits, preview toggles, file
\* uploads and AI suggestions came before; Save with an empty or
\* whitespace-only title makes no call; an accepted Save makes exactly one
\* call, updateDocument with the document's id when a document was passed
\* in, createDocument otherwise.
C3_WriteOnlyOnSave ==
  /\ [][editor.writes' # editor.writes =>
          /\ handleSave
          /\ Trim(editor.title) # <<>>]_vars
  /\ [][handleSave =>
          IF Trim(editor.title) = <<>>
          THEN editor.writes' = editor.writes
          ELSE editor.writes' = Append(editor.writes, ExpectedWrite)]_vars

\* C3 witness: after an AI summary was applied and a file was uploaded, one
\* Save of a new document has made its createDocument call
C3_Witness ==
  /\ editor.writes = <<[op |-> "createDocument", id |-> "none"]>>
  /\ editor.title = <<"f">>
  /\ editor.summary = "g"
  /\ editor.pendingWrite

\* C4: when the write of a Save rejects, onSave is not called, loading goes
\* back to false, title, content, summary, category, status and tags keep
\* their values and no write is made; a write is made only by the next Save.
C4_RejectedSaveIsTerminal ==
  /\ [][SaveRejects =>
          /\ editor.onSaveCalls' = editor.onSaveCalls
          /\ ~editor.loading'
          /\ ~editor.pendingWrite'
          /\ editor.writes' = editor.writes
          /\ editor.title' = editor.title
          /\ editor.content' = editor.content
          /\ editor.summary' = editor.summary
          /\ editor.categoryId' = editor.categoryId
          /\ editor.status' = editor.status
          /\ editor.tags' = editor.tags]_vars
  /\ [][editor.writes' # editor.writes => handleSave]_vars

\* C4 witness: the first write was rejected (no onSave) and the user has
\* pressed Save again
C4_Witness ==
  /\ Len(editor.writes) = 2
  /\ editor.onSaveCalls = 0
  /\ editor.pendingWrite
  /\ editor.document = "d1"

\* the files the claim calls acceptable
ClaimAccepts(file) ==
  /\ file.size <= maxFileSize
  /\ \/ \E k \in 1..Len(acceptedTypes) :
          ~startsWithDot(acceptedTypes[k]) /\ file.type = acceptedTypes[k]
     \/ \E k \in 1..Len(acceptedTypes) :
          /\ startsWithDot(acceptedTypes[k])
          /\ endsWith(toLowerCase(file.name), acceptedTypes[k])

FileAt(at) == upload.batches[at[1]].files[at[2]]

InLog(log, at) == \E n \in 1..Len(log) : log[n] = at

\* the per-batch logs of reads and of errors, batch after batch
RECURSIVE Flatten(_, _)
Flatten(logs, b) ==
  IF b = 0 THEN <<>> ELSE Flatten(logs, b - 1) \o logs[b]

AllReads == Flatten(upload.reads, MaxFiles)

AllErrors == Flatten(upload.errorsSet, MaxFiles)

\* C5: a file that is too large, or matches no accepted MIME type and no
\* accepted extension, is never read, never appended to uploadedFiles and
\* never passed to onFileUpload, and an error naming it is set when the loop
\* has passed it; the files of the batch that are acceptable are still read.
C5_RejectedFilesAreSkipped ==
  /\ \A n \in 1..Len(AllReads) : ClaimAccepts(FileAt(AllReads[n]))
  /\ \A n \in 1..Len(upload.calls) : ClaimAccepts(FileAt(upload.calls[n]))
  /\ \A n \in 1..Len(upload.uploadedFiles) :
       ClaimAccepts(upload.uploadedFiles[n])
  /\ \A b \in Batches :
       \A idx \in 1..Len(upload.batches[b].files) :
         idx < upload.batches[b].idx =>
           IF ClaimAccepts(upload.batches[b].files[idx])
           THEN InLog(AllReads, <<b, idx>>)
           ELSE \E n \in 1..Len(AllErrors) :
                  /\ AllErrors[n].at = <<b, idx>>
                  /\ AllErrors[n].kind =
                       IF upload.batches[b].files[idx].size > maxFileSize
                       THEN "too_large" ELSE "bad_type"

\* C5 witness: a batch of an oversized file and a file with an upper-case
\* extension is done; the first was refused and the second handed over
C5_Witness ==
  /\ upload.batches[1].pc = "done"
  /\ upload.batches[1].files = <<TooLarge, UpperMd>>
  /\ upload.calls = <<(<<1, 2>>)>>
  /\ upload.uploadedFiles = <<UpperMd>>

\* the entries of a log that belong to batch b
RECURSIVE OfBatch(_, _)
OfBatch(log, b) ==
  IF log = <<>> THEN <<>>
  ELSE (IF Head(log)[1] = b THEN <<Head(log)[2]>> ELSE <<>>)
       \o OfBatch(Tail(log), b)

Increasing(seq) == \A i, j \in 1..Len(seq) : i < j => seq[i] < seq[j]

\* C6: every accepted file goes through the same steps in order.  When its
\* read starts isUploading is true and uploadProgress 0; each step of the
\* progress loop sets uploadProgress to the next of 0, 10, ..., 100; after
\* 100 the file is appended to uploadedFiles and onFileUpload is called once
\* with it; a failed read appends nothing, calls nothing and sets an error;
\* when either ends the batch, isUploading is false and uploadProgress 0.
\* The files of a batch are read and handed over in the order of the batch.
C6_UploadSteps ==
  /\ [](\A b \in Batches :
          /\ Increasing(OfBatch(AllReads, b))
          /\ Increasing(OfBatch(upload.calls, b))
          /\ \A n \in 1..Len(upload.calls) :
               InLog(AllReads, upload.calls[n])
          /\ upload.batches[b].pc \in {"reading", "progress"} =>
               /\ InLog(AllReads, <<b, upload.batches[b].idx>>)
               /\ ~InLog(upload.calls, <<b, upload.batches[b].idx>>))
  /\ [](Len(upload.calls) = Len(upload.uploadedFiles)
        /\ \A n \in 1..Len(upload.calls) :
             upload.uploadedFiles[n] = FileAt(upload.calls[n]))
  /\ [][\A b \in Batches :
          LET me == upload.batches[b]
              next == upload.batches'[b]
          IN
          /\ (next.pc = "reading" /\ (me.pc # "reading" \/ me.idx # next.idx))
               => (upload.isUploading' /\ upload.uploadProgress' = 0)
          /\ (me.pc = "reading" /\ next.pc = "progress" /\ me.idx = next.idx)
               => (next.i = 0 /\ upload.uploadProgress' = 0)
          /\ (me.pc = "progress" /\ next.pc = "progress"
              /\ me.idx = next.idx /\ me.i # next.i)
               => (next.i = me.i + 10 /\ next.i <= 100
                   /\ upload.uploadProgress' = next.i)
          /\ (me.pc = "progress" /\ me.idx # next.idx)
               => (/\ me.i = 100
                   /\ upload.calls' = Append(upload.calls, <<b, me.idx>>)
                   /\ upload.uploadedFiles' =
                        Append(upload.uploadedFiles, me.files[me.idx]))
          /\ (me.pc = "reading" /\ me.idx # next.idx)
               => (/\ upload.calls' = upload.calls
                   /\ upload.uploadedFiles' = upload.uploadedFiles
                   /\ Len(AllErrors') > Len(AllErrors)
                   /\ \E n \in 1..Len(AllErrors') :
                        AllErrors'[n] =
                          [kind |-> "read_failed", at |-> <<b, me.idx>>])
          /\ (me.pc \in {"reading", "progress"} /\ next.pc = "done")
               => (~upload.isUploading' /\ upload.uploadProgress' = 0)]_vars

\* C6 witness: in a batch of two accepted files the read of the first has
\* failed and the second has gone through every step and was handed over
C6_Witness ==
  /\ upload.batches[1].pc = "done"
  /\ upload.batches[1].files = <<UpperMd, PlainText>>
  /\ AllReads = <<(<<1, 1>>), (<<1, 2>>)>>
  /\ AllErrors = <<[kind |-> "read_failed", at |-> <<1, 1>>]>>
  /\ upload.calls = <<(<<1, 2>>)>>
  /\ upload.uploadedFiles = <<PlainText>>
  /\ ~upload.isUploading
  /\ upload.uploadProgress = 0

\* the calendar day of an instant
DayOf(instant) == instant \div TicksPerDay

\* the document satisfies every active client-side filter, as the claim
\* states them: a shared tag; created on or after the day dateFrom and on or
\* before the day dateTo; a word count (null as 0) within the bounds
ClaimKeeps(doc, filters) ==
  /\ Len(filters.tags) > 0 =>
       /\ doc.tags # Null
       /\ \E i \in 1..Len(filters.tags) :
            Includes(doc.tags[1], filters.tags[i])
  /\ filters.dateFrom # <<>> =>
       /\ doc.created_at # Null
       /\ DayOf(doc.created_at[1]) >= filters.dateFrom[1]
  /\ filters.dateTo # <<>> =>
       /\ doc.created_at # Null
       /\ DayOf(doc.created_at[1]) <= filters.dateTo[1]
  /\ filters.wordCountMin > 0 =>
       WordCountOrZero(doc) >= filters.wordCountMin
  /\ filters.wordCountMax < wordCountMaxDefault =>
       WordCountOrZero(doc) <= filters.wordCountMax

\* C7: the list AdvancedSearch stores and passes to onResults is the
\* sub-sequence, in backend order, of the documents of the answer that
\* satisfy all active client-side filters.
C7_ResultsAreTheFilteredAnswer ==
  filterRun.ran =>
    LET keep(doc) == ClaimKeeps(doc, filterRun.filters) IN
    /\ filterRun.results = SelectSeq(filterRun.documents, keep)
    /\ filterRun.onResults = filterRun.results

\* C8: every invocation of handleSearch and of loadDocuments appends its own
\* request to the requests in flight, also while others are in flight; a
\* request leaves them only when its own response arrives, one at a time,
\* and a resolved response is then applied (the filtered answer to results,
\* the answer to documents); so every invocation is in flight or settled.
C8_FetchesAreUncoordinated ==
  /\ [](search.invoked = Len(search.inflight) + search.settled)
  /\ [](docList.invoked = Len(docList.inflight) + docList.settled)
  /\ [][search.invoked' # search.invoked =>
          search.inflight' =
            Append(search.inflight, [id |-> search.invoked + 1,
                                     filters |-> search.filters])]_vars
  /\ [][docList.invoked' # docList.invoked =>
          docList.inflight' =
            Append(docList.inflight, docList.invoked + 1)]_vars
  /\ [][search.settled' # search.settled =>
          \E k \in 1..Len(search.inflight) :
            /\ search.inflight' = RemoveAt(search.inflight, k)
            /\ search.settled' = search.settled + 1
            /\ \/ search.results' = search.results
               \/ \E documents \in Answers :
                    search.results' =
                      FilterDocuments(documents,
                                      search.inflight[k].filters)]_vars
  /\ [][docList.settled' # docList.settled =>
          \E k \in 1..Len(docList.inflight) :
            /\ docList.inflight' = RemoveAt(docList.inflight, k)
            /\ docList.settled' = docList.settled + 1
            /\ \/ docList.documents' = docList.documents
               \/ docList.documents' \in Answers]_vars

\* C8 witness: three searches are in flight at once, the later ones started
\* with Enter while the first was loading
C8_Witness ==
  /\ mounted = "AdvancedSearch"
  /\ Len(search.inflight) = 3
  /\ search.loading
  /\ search.inflight[1].filters # search.inflight[3].filters

\* the bodies the claim says are answered with 400
ClaimBadRequest(body) ==
  \/ ~Truthy(body.type)
  \/ ~Truthy(body.message)
  \/ ~Truthy(body.timestamp)
  \/ ~(body.type.t = "string" /\ body.type.v \in validTypes)
  \/ /\ body.type = Str("rating")
     /\ \/ ~Truthy(body.rating)
        \/ Less(body.rating, 1)
        \/ Greater(body.rating, 5)

\* C9: POST /api/feedback answers 400 when type, message or timestamp is
\* missing or empty, when type is not one of the four types, or when type is
\* rating and rating is missing or outside 1..5; every other body with a
\* string message is answered with the success JSON.
C9_FeedbackResponses ==
  feedback.handled =>
    IF ClaimBadRequest(feedback.body)
    THEN feedback.response.status = 400
    ELSE feedback.body.message.t = "string" =>
           feedback.response = Success

\* the throws but the one whose componentDidCatch is still to run
Caught ==
  IF boundary.pending
  THEN SubSeq(boundary.throws, 1, Len(boundary.throws) - 1)
  ELSE boundary.throws

\* C10: from a child's throw until Try Again the boundary is in the error
\* state, holds the error and renders the fallback prop, or the static card
\* when none is given, never its children; onError is called once per caught
\* error, in order; the error state ends only by handleReset, which clears
\* hasError, error and errorInfo and renders the children again; a later
\* throw brings the error state back.
C10_ErrorBoundary ==
  /\ [](boundary.hasError <=> Len(boundary.throws) = boundary.resets + 1)
  /\ [](~boundary.hasError <=> Len(boundary.throws) = boundary.resets)
  /\ [](boundary.hasError =>
          /\ Render(boundary) =
               IF boundary.fallback THEN "fallback" ELSE "card"
          /\ boundary.error = boundary.throws[Len(boundary.throws)])
  /\ [](~boundary.hasError =>
          /\ Render(boundary) = "children"
          /\ boundary.error = "none"
          /\ boundary.errorInfo = "none")
  /\ [](boundary.onErrorCalls = IF boundary.onError THEN Caught ELSE <<>>)
  /\ [][boundary.hasError /\ ~boundary.hasError' => handleReset]_vars
  /\ [][~boundary.hasError /\ boundary.hasError' => ChildThrows]_vars

\* C10 witness: after a throw and Try Again a second throw has put the
\* boundary back into the error state, and onError has seen both errors
C10_Witness ==
  /\ boundary.hasError
  /\ boundary.resets = 1
  /\ boundary.throws = <<"e1", "e2">>
  /\ boundary.onErrorCalls = <<"e1", "e2">>
  /\ Render(boundary) = "card"

InQueue(id) == \E n \in 1..Len(toasts.queue) : toasts.queue[n].id = id

\* C11: a toast added with a duration other than 0 is eventually out of the
\* queue; as long as it is in the queue its timer, set to its duration or to
\* 5000 ms when none was given, is pending, and the step in which that timer
\* fires leaves it out of the queue, whatever was added, removed or cleared
\* in between.  A toast added with duration 0 has no timer and leaves the
\* queue only in a step of removeToast with its id or of clearToasts.
C11_ToastsAreDismissed ==
  /\ \A id \in ToastIds :
       (InQueue(id) /\ toasts.added[id] # Some(0)) ~> ~InQueue(id)
  /\ [](\A id \in ToastIds :
          (InQueue(id) /\ toasts.added[id] # Some(0)) =>
            [id |-> id,
             delay |-> IF toasts.added[id] = Null THEN 5000
                       ELSE toasts.added[id][1]] \in toasts.timers)
  /\ [](\A timer \in toasts.timers : toasts.added[timer.id] # Some(0))
  /\ [][\A id \in ToastIds : TimerFires(id) => ~InQueue(id)']_vars
  /\ [][\A id \in ToastIds :
          (InQueue(id) /\ ~InQueue(id)' /\ toasts.added[id] = Some(0))
            => (removeToast(id) \/ clearToasts)]_vars

\* C11 witness: of three toasts the first (no duration) and the third
\* (3000 ms) are out of the queue and their timers have fired; the second,
\* added with duration 0, is still in the queue
C11_Witness ==
  /\ toasts.added = <<Null, Some(0), Some(3000)>>
  /\ toasts.timers = {}
  /\ toasts.queue = <<[id |-> 2, duration |-> Some(0)]>>

\* C12: at every moment there is at most one refresh interval, with a
\* period of 5000 ms, and there is one exactly while the dashboard is mounted
\* with auto-refresh on; every firing of the interval starts the generation
\* of a report, and such periodic generations start only while the dashboard
\* is mounted with auto-refresh on; the step that switches auto-refresh off,
\* and the unmount, leave no interval.
C12_OneRefreshInterval ==
  /\ [](Cardinality(perf.intervals) <= 1)
  /\ [](perf.intervals # {} <=> (perf.mounted /\ perf.autoRefresh))
  /\ [](\A i \in perf.intervals : i.period = 5000)
  /\ [][IntervalFires =>
          /\ perf.started' = perf.started + 1
          /\ perf.timeouts' = perf.timeouts + 1]_vars
  /\ [][perf.periodic' # perf.periodic =>
          /\ perf.mounted /\ perf.autoRefresh
          /\ perf.mounted' /\ perf.autoRefresh']_vars
  /\ [][((perf.autoRefresh /\ ~perf.autoRefresh')
         \/ (perf.mounted /\ ~perf.mounted')) =>
          perf.intervals' = {}]_vars
  /\ [][ReportTimeoutFires \/ StaleTimeoutFires =>
          perf.generated' = perf.generated + 1]_vars

\* C12 witness: auto-refresh was switched on, off and on again; the second
\* interval is the only one, and a periodic report has been generated
C12_Witness ==
  /\ perf.mounted /\ perf.autoRefresh
  /\ perf.created = 2
  /\ perf.intervals = {[id |-> 2, period |-> 5000]}
  /\ perf.periodic >= 1
  /\ perf.timeouts = 0

\* C13: a rendered Button is disabled exactly when its loading prop or its
\* disabled prop is true; a click while it is loading or disabled invokes
\* onClick not at all, every other click invokes it exactly once.
C13_DisabledButtonIgnoresClicks ==
  /\ [](button.rendered =>
          (button.disabledAttr <=>
             (button.props.loading = Some(TRUE)
              \/ button.props.disabled = Some(TRUE))))
  /\ [][ButtonClick =>
          button.onClickCalls' =
            IF button.props.loading = Some(TRUE)
               \/ button.props.disabled = Some(TRUE)
            THEN button.onClickCalls
            ELSE button.onClickCalls + 1]_vars

\* C13 witness: one click reached onClick, then the Button was rendered
\* loading and the second click did not
C13_Witness ==
  /\ button.clicks = 2
  /\ button.onClickCalls = 1
  /\ button.props.loading = Some(TRUE)
  /\ button.props.disabled = Null

\* toHaveClass: every class name of the string is one of the element's
HasClass(classes, names) ==
  \A n \in 1..Len(names) : \E k \in 1..Len(classes) : classes[k] = names[n]

\* C14: the classes of a rendered Button are those the unit tests expect:
\* bg-blue-600 with the default variant, bg-gray-100 for secondary, border-2
\* for outline, bg-red-500 for danger, px-4 py-2 text-sm for size sm, px-8
\* py-4 text-lg for size lg, disabled:opacity-50 when loading or disabled,
\* and a custom className is kept.
C14_ButtonClasses ==
  button.rendered =>
    LET props == button.props
        has(names) == HasClass(button.classes, names)
    IN
    /\ (props.variant = Null \/ props.variant = Some("primary"))
         => has(<<"bg-blue-600">>)
    /\ props.variant = Some("secondary") => has(<<"bg-gray-100">>)
    /\ props.variant = Some("outline") => has(<<"border-2">>)
    /\ props.variant = Some("danger") => has(<<"bg-red-500">>)
    /\ props.size = Some("sm") => has(<<"px-4", "py-2", "text-sm">>)
    /\ props.size = Some("lg") => has(<<"px-8", "py-4", "text-lg">>)
    /\ (props.loading = Some(TRUE) \/ props.disabled = Some(TRUE))
         => has(<<"disabled:opacity-50">>)
    /\ props.className # Null => has(props.className[1])

\* C15: every event sendEvent has posted (page_view, user_interaction,
\* performance, error, feature_usage, user_identify) passes the route's
\* required-field check: its body has a truthy event, timestamp and
\* sessionId, and the route's answer to it is the success JSON, never 400.
C15_AnalyticsEventsAreAccepted ==
  /\ \A n \in 1..Len(analytics.posted) :
       /\ Truthy(analytics.posted[n].event)
       /\ Truthy(analytics.posted[n].timestamp)
       /\ Truthy(analytics.posted[n].sessionId)
  /\ \A n \in 1..Len(analytics.responses) :
       /\ analytics.responses[n].success
       /\ analytics.responses[n].status # 400

\* C16: a mouse click on an open modal invokes onClose exactly when
\* closeOnBackdropClick is true and the click is on the backdrop area
\* outside the dialog panel; with closeOnBackdropClick false, or with the
\* click inside the panel, onClose is not invoked.
C16_BackdropClickCloses ==
  modal.last.event = "click" =>
    (modal.last.called <=>
       (modal.last.area = "outside" /\ modal.last.closeOnBackdropClick))

FocusableElements(elements) == {k \in 1..Len(elements) : elements[k]}

FirstFocusable(elements) ==
  CHOOSE k \in FocusableElements(elements) :
    \A j \in FocusableElements(elements) : k <= j

LastFocusable(elements) ==
  CHOOSE k \in FocusableElements(elements) :
    \A j \in FocusableElements(elements) : k >= j

\* C17: with at least one focusable element in the modal, opening focuses
\* the first focusable element; Tab on the last focusable element focuses
\* the first and Shift+Tab on the first focuses the last; a Tab or Shift+Tab
\* with the focus inside the modal leaves it inside; and when the modal
\* closes the focus is on the element that had it before the modal opened.
C17_FocusTrap ==
  LET last == modal.last
      focusable == FocusableElements(last.elements)
  IN /\ (last.event = "open" /\ focusable # {})
          => modal.active = FirstFocusable(last.elements)
     /\ (last.event = "tab" /\ focusable # {} /\ InModal(last.before))
          => /\ InModal(modal.active)
             /\ (~last.shift /\ last.before = LastFocusable(last.elements))
                  => modal.active = FirstFocusable(last.elements)
             /\ (last.shift /\ last.before = FirstFocusable(last.elements))
                  => modal.active = LastFocusable(last.elements)
     /\ (~modal.isOpen /\ last.event # "none")
          => modal.active = modal.previousFocus[1]

\* the last n entries of a history, all of it when it has at most n
MostRecent(history, n) ==
  IF Len(history) <= n THEN history
  ELSE [k \in 1..n |-> history[Len(history) - n + k]]

\* C18: after any sequence of recordMetric and trackError calls getMetrics
\* returns at most 100 entries and getErrors at most 50, and they are
\* exactly the most recently recorded entries, in the order of recording.
C18_BuffersAreBounded ==
  /\ Len(getMetrics) <= 100
  /\ Len(getErrors) <= 50
  /\ getMetrics = MostRecent(monitoring.recordedMetrics, 100)
  /\ getErrors = MostRecent(monitoring.recordedErrors, 50)

C18_Witness ==
  /\ Len(monitoring.recordedMetrics) > 100
  /\ Len(monitoring.recordedErrors) > 50
  /\ Len(getMetrics) = 100
  /\ Len(getErrors) = 50

\* C19: after the user has selected theme T and the effects have run,
\* localStorage 'theme' holds T and the root element has exactly one of the
\* classes light and dark: T, or the system preference when T is system.
\* A ThemeToggle mounted after that selection, with no selection in
\* between, ends with theme T and leaves the stored value T.
C19_ThemeRoundTrip ==
  LET last == theme.last
  IN /\ last.event = "select"
          => /\ theme.storage = Some(last.selected)
             /\ theme.rootClasses \cap {"light", "dark"} =
                  {IF last.selected = "system" THEN systemTheme(theme)
                   ELSE last.selected}
     /\ (last.event = "mounted" /\ last.after # Null)
          => /\ last.theme = last.after[1]
             /\ theme.storage = last.after

EnabledIndexes == {k \in 0..(Len(navList.items) - 1) :
                     ~Item(navList, k).disabled}

\* C20: after any sequence of arrow, Home, End, Enter, Space and Escape keys
\* on a fixed item list, focusedIndex is -1 or the index of an item that is
\* not disabled; onSelect was never called with the id of a disabled item;
\* and when every item is disabled or the list is empty focusedIndex is -1.
C20_FocusOnEnabledItems ==
  /\ navList.focusedIndex = -1 \/ navList.focusedIndex \in EnabledIndexes
  /\ \A id \in navList.selected :
       \E k \in EnabledIndexes : Item(navList, k).id = id
  /\ EnabledIndexes = {} => navList.focusedIndex = -1

\* in a list whose first and last items are disabled the focus is on the
\* item between them and Enter has selected it
C20_Witness ==
  /\ Len(navList.items) = MaxItems
  /\ Item(navList, 0).disabled
  /\ ~Item(navList, 1).disabled
  /\ Item(navList, 2).disabled
  /\ navList.focusedIndex = 1
  /\ navList.selected = {1}
  /\ navList.key = "Enter"

\* C21: after any sequence of select, edit, create, save and cancel actions
\* and clicks on the navigation buttons, currentView = 'preview' implies a
\* defined selectedDocument; Save and Cancel lead to the list view with
\* selectedDocument undefined, Create to the editor view with
\* selectedDocument undefined, Edit to the editor view with the chosen
\* document.
C21_DashboardViews ==
  LET last == dashboard.last
  IN /\ dashboard.currentView = "preview" => dashboard.selectedDocument # Null
     /\ last.event \in {"save", "cancel"}
          => /\ dashboard.currentView = "list"
             /\ dashboard.selectedDocument = Null
     /\ last.event = "create"
          => /\ dashboard.currentView = "editor"
             /\ dashboard.selectedDocument = Null
     /\ last.event = "edit"
          => /\ dashboard.currentView = "editor"
             /\ dashboard.selectedDocument = last.document

\* the page has shown every view, and the save of an editor it had left
\* has brought it back to the list
C21_Witness ==
  /\ dashboard.visited = {"list", "preview", "editor", "performance"}
  /\ dashboard.last.event = "save"
  /\ dashboard.currentView = "list"
  /\ dashboard.selectedDocument = Null

\* C22: every place that computes a reading time for a content string
\* (the editor's save, parseMarkdown, analyzeDocument's AI path and its
\* fallback) yields ceil(W / 200), W being the number of non-empty
\* whitespace-separated tokens of the content; content without words
\* gives 0.
C22_ReadingTimesAgree ==
  readingTimes.place # "none" =>
    /\ readingTimes.value = Ceil(WordCount(readingTimes.content), 200)
    /\ WordCount(readingTimes.content) = 0 => readingTimes.value = 0

\* C23: when AdvancedSearch searches overlapped and all of them have
\* completed, none rejected, the displayed results and the list last passed
\* to onResults are those of the most recently started search, in whatever
\* order the responses arrived.
C23_LatestSearchWins ==
  (/\ mounted = "AdvancedSearch"
   /\ search.invoked > 1
   /\ search.inflight = <<>>
   /\ search.failed = {})
    => /\ search.passed = search.invoked
       /\ search.shown \in {0, search.invoked}

\* a file of batch b is between the start of its read and the end of its
\* simulated progress
BeingProcessed(b) == upload.batches[b].pc \in {"reading", "progress"}

\* C24: isUploading is true at every moment at which some accepted file is
\* between the start of its read and the end of its simulated progress,
\* also when a second batch arrives while the first is still processed; it
\* is false only when no file is being processed.
C24_IsUploadingWhileProcessing ==
  (\E b \in Batches : BeingProcessed(b)) => upload.isUploading

\* the step FileUpload makes when it hands a read file to the editor
FileIsUploaded ==
  /\ editor.uploadClosure.mounted
  /\ \E parsed \in ParsedFiles : editor' = FileUploaded(editor, parsed)

\* C25: an upload fills title and summary from the file only when the
\* editor's title (respectively summary) is empty at the moment of the
\* upload: a non-empty title or summary typed before the upload, also after
\* the upload panel was opened, is unchanged after the upload.
C25_UploadKeepsTypedFields ==
  [][FileIsUploaded =>
       /\ editor.title # <<>> => editor'.title = editor.title
       /\ editor.summary # "" => editor'.summary = editor.summary]_vars

====
